---- MODULE Spec2Model ----
(***************************************************************************)
(* al-farahidi: the regex specification parser (regex.c) and the Thompson  *)
(* NFA builder (nfa.c).  Bytes are one-character strings; the NUL byte is  *)
(* the string "NUL".  C arrays are 0-based: pool index i lives at sequence *)
(* position i+1.                                                           *)
(***************************************************************************)
EXTENDS Integers, Sequences, FiniteSets, TLC

VARIABLES
  stdin,            \* the lines of standard input not read yet
  phase,            \* "parse" | "build" | "union" | "print" | "done" | "error" | "harness"
  err,              \* "none" or the reason the process stopped
  regexSpecLine,    \* parse_regex_spec: the bytes written so far into the line buffer
  uninit,           \* the byte found in never-written stack memory of the line buffer
  nonterms,         \* regex.c: nonterms[0 .. currentNonterm-1]
  currentNonterm,
  termPool,         \* regex.c: termPool[0 .. currentTermStart-1]
  exprPool,         \* regex.c: exprPool[0 .. freeExprIdx-1]
  freeExprIdx,
  currentLine,
  termLog,          \* history: one entry per terminal operand stored
  defLog,           \* history: the table index completed by each definition line
  nameLog,          \* history: one entry per name written into a name[] storage
  nfaStatesPool,    \* nfa.c: nfaStatesPool[0 .. currentNFAState-1]
  nfaEdgePool,      \* nfa.c: nfaEdgePool[0 .. currentNFAEdge-1]
  nfaPool,          \* nfa.c: nfaPool[0 .. currentNFA-1]
  nontermToNFAMap,  \* nfa.c: nontermToNFAMap[0 .. nontermTableSize-1]
  nontermTableSize,
  loopIdx,          \* build_nfa: the loop variable i
  stack,            \* the active calls of build_non_terminal_nfa / build_regex_expr_nfa
  lastComb,         \* history: the last combinator applied and its handles
  output            \* stdout: the states visited and the edges printed, in order

vars == <<stdin, phase, err, regexSpecLine, uninit, nonterms, currentNonterm, termPool,
          exprPool, freeExprIdx, currentLine, termLog, defLog, nameLog,
          nfaStatesPool,
          nfaEdgePool, nfaPool, nontermToNFAMap, nontermTableSize, loopIdx,
          stack, lastComb, output>>

parserVars == <<regexSpecLine, nonterms, currentNonterm, termPool, exprPool,
                freeExprIdx, currentLine, termLog, defLog, nameLog>>

nfaVars == <<nfaStatesPool, nfaEdgePool, nfaPool>>

driverVars == <<nontermToNFAMap, nontermTableSize, loopIdx, stack>>

----------------------------------------------------------------------------
(* Program constants                                                       *)

MAX_NONTERMS == 256

MAX_TOTAL_TERM_LEN == 8192

MAX_NONTERM_NAME == 64

MAX_NESTED_EXPRS == 4 * MAX_NONTERMS

MAX_NFA_EDGES == 10 * (MAX_NESTED_EXPRS + MAX_NONTERMS)

MAX_EDGES_PER_NODE == 128

MAX_NFA_STATES == 1024

MAX_NFAS == MAX_NFA_STATES \div 4

EPSILON == "NUL"

NUL == "NUL"

NL == "\n"

isspace(c) == c \in {" ", "\n", "\t"}

----------------------------------------------------------------------------
(* Bounds of the model                                                     *)

\* the lines of an input file
MaxLines == 3

\* the bytes of a terminal run in the parser-only inputs
MaxRunLen == 3

\* the frames of the driver's call stack; a deeper descent stops the run
MaxDepth == 14

\* languages are compared on the words of at most this many bytes
MaxStrLen == 4

\* the combinator driver: how many single-symbol NFAs it makes
MaxHarnessNFAs == 3

\* the combinator driver: no combinator is applied once this many edges exist
MaxHarnessEdges == 7

----------------------------------------------------------------------------
(* regex.c: the line buffer                                                *)

\* regexSpecLine[i] for the 1-based position i; a byte fgets never wrote is
\* whatever the stack held.
BufAt(P, i) == IF i >= 1 /\ i <= Len(P.buf) THEN P.buf[i] ELSE P.un

\* fgets: the line and its NUL overwrite the head of the buffer, the rest stays.
fgets(old, line) ==
  LET written == Append(line, NUL)
  IN  written \o SubSeq(old, Len(written) + 1, Len(old))

\* while (isspace(**regexPtr)) moveRegexPtr
RECURSIVE SkipSpace(_, _)
SkipSpace(P, pos) ==
  IF isspace(BufAt(P, pos)) THEN SkipSpace(P, pos + 1) ELSE pos

\* while (isspace(**regexPtr) && **regexPtr != '\n') moveRegexPtr
RECURSIVE SkipBlank(_, _)
SkipBlank(P, pos) ==
  IF isspace(BufAt(P, pos)) /\ BufAt(P, pos) # NL
  THEN SkipBlank(P, pos + 1) ELSE pos

\* while (**regexPtr != '\0' && !isspace(**regexPtr)) moveRegexPtr
RECURSIVE SkipRun(_, _)
SkipRun(P, pos) ==
  IF BufAt(P, pos) # NUL /\ ~isspace(BufAt(P, pos))
  THEN SkipRun(P, pos + 1) ELSE pos

Bytes(P, from, n) == [k \in 1..n |-> BufAt(P, from + k - 1)]

Fatal(P, e) == [P EXCEPT !.err = e]

----------------------------------------------------------------------------
(* regex.c: memcpy2                                                        *)

\* The loop of memcpy2.  dest is the sequence of bytes written so far; the
\* translated byte c is computed by the source but never stored: the byte
\* copied is *src, the byte after the escape character.
RECURSIVE memcpy2Loop(_, _, _, _, _)
memcpy2Loop(P, src, numBytes, dest, copied) ==
  LET n == numBytes - 1 IN
  IF n < 0 THEN [err |-> "none", dest |-> dest, copied |-> copied]
  ELSE IF BufAt(P, src) = "@"
       THEN IF n <= 0
            THEN [err |-> "IncompleteEscape", dest |-> dest, copied |-> copied]
            ELSE memcpy2Loop(P, src + 2, n,
                             Append(dest, BufAt(P, src + 1)), copied - 1)
       ELSE memcpy2Loop(P, src + 1, n, Append(dest, BufAt(P, src)), copied)

memcpy2(P, src, numBytes) == memcpy2Loop(P, src, numBytes, <<>>, numBytes)

----------------------------------------------------------------------------
(* regex.c: operands, expression nodes and the non-terminal table          *)

\* A pointer stored in an operand slot: NULL, termPool + idx, &nonterms[idx],
\* &nonterms[idx].expr ("root") or &exprPool[idx] ("pool").
NullOp == [tag |-> "null", idx |-> 0]

TermOp(off) == [tag |-> "term", idx |-> off]

NontermOp(i) == [tag |-> "nonterm", idx |-> i]

RootRef(i) == [tag |-> "root", idx |-> i]

PoolRef(k) == [tag |-> "pool", idx |-> k]

\* Static storage is zero-initialised: NO_OP and NESTED_EXPRESSION are the
\* first enumerators, the pointers are NULL.
ZeroExpr == [type |-> "NO_OP", op1 |-> NullOp, op2 |-> NullOp,
             op1Type |-> "NESTED_EXPRESSION", op2Type |-> "NESTED_EXPRESSION"]

ZeroNonterm == [name |-> <<>>, expr |-> ZeroExpr, complete |-> FALSE, idx |-> 0]

GetNode(P, r) ==
  IF r.tag = "root" THEN P.nonterms[r.idx + 1].expr ELSE P.exprPool[r.idx + 1]

SetNode(P, r, node) ==
  IF r.tag = "root"
  THEN [P EXCEPT !.nonterms[r.idx + 1].expr = node]
  ELSE [P EXCEPT !.exprPool[r.idx + 1] = node]

\* &(exprPool[freeExprIdx]): the slot exists, zeroed, if nothing wrote it yet
TouchPool(P) ==
  IF Len(P.exprPool) <= P.free
  THEN [P EXCEPT !.exprPool = Append(P.exprPool, ZeroExpr)] ELSE P

\* nonterms[i].name[k-1]: the name, its NUL, then zeroed storage
NameAt(nt, k) == IF k <= Len(nt.name) THEN nt.name[k] ELSE NUL

\* memcmp(nonterms[i].name, operandStart, operandNameSize) == 0
memcmpName(P, i, start, size) ==
  \A k \in 1..size : NameAt(P.nonterms[i + 1], k) = BufAt(P, start + k - 1)

\* the for loop of parse_operand: first matching index or -1
FindOperand(P, start, size) ==
  LET hits == {i \in 0..(Len(P.nonterms) - 1) : memcmpName(P, i, start, size)}
  IN  IF hits = {} THEN -1 ELSE CHOOSE i \in hits : \A j \in hits : i <= j

\* TermSlot with the NUL stored one byte early, at [size - 1]
TermSlot_NulOneEarly(dest, copied) ==
  Append(IF copied >= 1 THEN [dest EXCEPT ![copied] = NUL] ELSE dest, NUL)

\* the bytes parse_operand leaves in termPool for one terminal: what memcpy2
\* wrote, the NUL stored at [size], and the zeroed byte that ends the slot
TermSlot(dest, copied) ==
  Append(IF copied < Len(dest) THEN [dest EXCEPT ![copied + 1] = NUL] ELSE dest,
         NUL)

\* the writes that store a name of `size` bytes: the bytes go to indices
\* 0 .. size - 1 and the NUL to index size, of the local nontermName of
\* parse_header (entry = -1) or of nonterms[entry].name
NameWrite(by, entry, size) == [by |-> by, entry |-> entry, size |-> size]

parse_operand(P) ==
  LET p1 == SkipBlank(P, P.pos) IN
  IF BufAt(P, p1) \in {NUL, NL} THEN [P EXCEPT !.pos = p1, !.op = NullOp]
  ELSE IF BufAt(P, p1) \in {"|", "*"}
  THEN Fatal([P EXCEPT !.pos = p1], "DanglingOperator")
  ELSE
    LET end  == SkipRun(P, p1)
        p2   == IF BufAt(P, end - 1) = "*" /\ BufAt(P, end - 2) # "@"
                THEN end - 1 ELSE end
        operandNameSize == p2 - p1
    IN
    IF BufAt(P, p1) = "$"
    THEN IF operandNameSize = 1
         THEN Fatal([P EXCEPT !.pos = p2], "EmptyName")
         ELSE LET found == FindOperand(P, p1, operandNameSize) IN
              IF found # -1
              THEN [P EXCEPT !.pos = p2, !.op = NontermOp(found)]
              ELSE IF Len(P.nonterms) + 1 >= MAX_NONTERMS
              THEN Fatal([P EXCEPT !.pos = p2], "assert:MAX_NONTERMS")
              ELSE [P EXCEPT !.pos = p2,
                             !.op = NontermOp(Len(P.nonterms)),
                             !.nameLog = Append(@, NameWrite("parse_operand",
                                                   Len(P.nonterms), operandNameSize)),
                             !.nonterms = Append(P.nonterms,
                                [ZeroNonterm EXCEPT
                                   !.name = Bytes(P, p1, operandNameSize),
                                   !.complete = FALSE,
                                   !.idx = Len(P.nonterms)])]
    ELSE IF Len(P.termPool) + operandNameSize > MAX_TOTAL_TERM_LEN
    THEN Fatal([P EXCEPT !.pos = p2], "assert:MAX_TOTAL_TERM_LEN")
    ELSE LET r == memcpy2(P, p1, operandNameSize) IN
         IF r.err # "none" THEN Fatal([P EXCEPT !.pos = p2], r.err)
         ELSE [P EXCEPT !.pos = p2,
                        !.op = TermOp(Len(P.termPool)),
                        !.termPool = P.termPool \o TermSlot(r.dest, r.copied),
                        !.termLog = Append(P.termLog,
                           [run  |-> Bytes(P, p1, operandNameSize),
                            off  |-> Len(P.termPool),
                            size |-> r.copied])]

\* parse_operator that takes `|` for a concatenation
parse_operator_OrAsAnd(P) ==
  LET p == SkipBlank(P, P.pos)
      c == BufAt(P, p)
  IN  IF c = NL \/ c = NUL THEN [pos |-> p, opCode |-> "NO_OP"]
      ELSE IF c = "|" THEN [pos |-> p + 1, opCode |-> "AND"]
      ELSE IF c = "*" THEN [pos |-> p + 1, opCode |-> "ZERO_OR_MORE"]
      ELSE [pos |-> p, opCode |-> "AND"]

parse_operator(P) ==
  LET p == SkipBlank(P, P.pos)
      c == BufAt(P, p)
  IN  IF c = NL \/ c = NUL THEN [pos |-> p, opCode |-> "NO_OP"]
      ELSE IF c = "|" THEN [pos |-> p + 1, opCode |-> "OR"]
      ELSE IF c = "*" THEN [pos |-> p + 1, opCode |-> "ZERO_OR_MORE"]
      ELSE [pos |-> p, opCode |-> "AND"]

----------------------------------------------------------------------------
(* regex.c: parse_header                                                   *)

\* strcmp(nontermName, nonterms[i].name) == 0
strcmpName(P, i, name) == P.nonterms[i + 1].name = name

\* the for loop of parse_header without the test of complete
FindHeader_IgnoresComplete(P, name) ==
  LET hits == {i \in 0..(Len(P.nonterms) - 1) : strcmpName(P, i, name)}
  IN  IF hits = {} THEN -1 ELSE CHOOSE i \in hits : \A j \in hits : i <= j

\* the for loop of parse_header: -2 for a re-definition, else the first
\* incomplete entry of that name, else -1
FindHeader(P, name) ==
  LET hits == {i \in 0..(Len(P.nonterms) - 1) : strcmpName(P, i, name)}
      first == CHOOSE i \in hits : \A j \in hits : i <= j
  IN  IF hits = {} THEN -1
      ELSE IF P.nonterms[first + 1].complete THEN -2
      ELSE first

\* the tail of parse_header, after the name is interned at nontermIdx
HeaderAssign(P, nameEnd, nontermIdx) ==
  LET p1 == SkipSpace(P, nameEnd) IN
  IF BufAt(P, p1) # ":" \/ BufAt(P, p1 + 1) # "="
  THEN Fatal(P, "MissingDefinition")
  ELSE LET p2 == SkipBlank(P, p1 + 2) IN
       IF BufAt(P, p2) \in {NUL, NL}
       THEN Fatal(P, "MissingDefinition")
       ELSE [P EXCEPT !.pos = p2, !.idx = nontermIdx]

parse_header(P) ==
  IF BufAt(P, P.pos) # "$" THEN Fatal(P, "MalformedHeader")
  ELSE
    LET nontermNameStart == P.pos
        nameEnd == SkipRun(P, P.pos + 1)
        nontermNameSize == nameEnd - nontermNameStart
        nontermName == Bytes(P, nontermNameStart, nontermNameSize)
    IN
    IF nameEnd = nontermNameStart + 1 THEN Fatal(P, "EmptyName")
    ELSE IF BufAt(P, nameEnd) \in {NUL, NL} THEN Fatal(P, "MissingDefinition")
    ELSE IF nontermNameSize > MAX_NONTERM_NAME
    THEN Fatal(P, "assert:MAX_NONTERM_NAME")
    ELSE
      LET L == [P EXCEPT !.nameLog = Append(@, NameWrite("parse_header", -1,
                                                         nontermNameSize))]
          found == FindHeader(P, nontermName)
      IN
      IF found = -2 THEN Fatal(L, "Redefinition")
      ELSE IF found # -1
      THEN HeaderAssign([L EXCEPT !.nonterms[found + 1].name = nontermName,
                                  !.nonterms[found + 1].idx = found,
                                  !.nameLog = Append(@, NameWrite("parse_header", found,
                                                                  nontermNameSize))],
                        nameEnd, found)
      ELSE IF Len(P.nonterms) + 1 >= MAX_NONTERMS
      THEN Fatal(L, "assert:MAX_NONTERMS")
      ELSE HeaderAssign([L EXCEPT !.nameLog = Append(@, NameWrite("parse_header",
                                                       Len(P.nonterms), nontermNameSize)),
                                  !.nonterms = Append(P.nonterms,
                                     [ZeroNonterm EXCEPT
                                        !.name = nontermName,
                                        !.idx = Len(P.nonterms)])],
                        nameEnd, Len(P.nonterms))

----------------------------------------------------------------------------
(* regex.c: parse_body                                                     *)

\* the closure branch without the re-linking of the previous node to the
\* new parent
BodyClosure_NoRelink(P) ==
  LET B1 == SetNode(P, P.cur, [GetNode(P, P.cur) EXCEPT
                                 !.op2 = NullOp, !.op2Type = "NOTHING"])
  IN
  IF B1.free >= MAX_NESTED_EXPRS THEN Fatal(B1, "assert:MAX_NESTED_EXPRS")
  ELSE
    LET B2 == TouchPool(B1)
        newExpr == PoolRef(B2.free)
        O2 == parse_operator(B2)
        B3 == SetNode(B2, newExpr, [GetNode(B2, newExpr) EXCEPT
                                      !.type = O2.opCode,
                                      !.op1 = B2.cur,
                                      !.op1Type = "NESTED_EXPRESSION"])
    IN  [B3 EXCEPT !.cur = newExpr, !.free = B3.free + 1, !.pos = O2.pos]

\* the ZERO_OR_MORE branch of the loop: the closure node ends here and a new
\* node, whose op1 is the closure node, replaces it under prevExpr
BodyClosure(P) ==
  LET B1 == SetNode(P, P.cur, [GetNode(P, P.cur) EXCEPT
                                 !.op2 = NullOp, !.op2Type = "NOTHING"])
  IN
  IF B1.free >= MAX_NESTED_EXPRS THEN Fatal(B1, "assert:MAX_NESTED_EXPRS")
  ELSE
    LET B2 == TouchPool(B1)
        newExpr == PoolRef(B2.free)
        O2 == parse_operator(B2)
        B3 == SetNode(B2, newExpr, [GetNode(B2, newExpr) EXCEPT
                                      !.type = O2.opCode,
                                      !.op1 = B2.cur,
                                      !.op1Type = "NESTED_EXPRESSION"])
        B4 == SetNode(B3, B3.prev, [GetNode(B3, B3.prev) EXCEPT
                                      !.op2 = newExpr,
                                      !.op2Type = "NESTED_EXPRESSION"])
    IN  [B4 EXCEPT !.cur = newExpr, !.free = B4.free + 1, !.pos = O2.pos]

\* the end of one loop iteration: request the successor node
BodyAdvance(P) ==
  IF P.err # "none" THEN P
  ELSE IF P.free >= MAX_NESTED_EXPRS THEN Fatal(P, "assert:MAX_NESTED_EXPRS")
  ELSE
    LET C1 == TouchPool(P)
        nxt == PoolRef(C1.free)
        C2 == SetNode(C1, C1.cur, [GetNode(C1, C1.cur) EXCEPT
                                     !.op2 = nxt,
                                     !.op2Type = "NESTED_EXPRESSION"])
    IN  [C2 EXCEPT !.prev = C2.cur, !.cur = nxt, !.free = C2.free + 1]

\* one iteration of the while loop, for the operand parse_operand returned
BodyIteration(P) ==
  LET O1 == parse_operator(P)
      B  == SetNode([P EXCEPT !.pos = O1.pos], P.cur,
                    [GetNode(P, P.cur) EXCEPT
                       !.type = O1.opCode,
                       !.op1 = P.op,
                       !.op1Type = "LEAF_OPERATOR"])
  IN  BodyAdvance(IF O1.opCode = "ZERO_OR_MORE" THEN BodyClosure(B) ELSE B)

\* after the loop: the assertion on the last node, then the extra node is
\* handed back and the last node's op2 is cleared
BodyFinish(P) ==
  IF GetNode(P, P.prev).type \notin {"NO_OP", "ZERO_OR_MORE"}
  THEN Fatal(P, "assert:LastExpr")
  ELSE LET F == SetNode(P, P.prev, [GetNode(P, P.prev) EXCEPT !.op2 = NullOp])
       IN  [F EXCEPT !.free = F.free - 1,
                     !.exprPool = SubSeq(F.exprPool, 1, F.free - 1)]

RECURSIVE BodyLoop(_)
BodyLoop(P) ==
  LET A == parse_operand(P) IN
  IF A.err # "none" THEN A
  ELSE IF A.op = NullOp THEN BodyFinish(A)
  ELSE LET N == BodyIteration(A) IN
       IF N.err # "none" THEN N ELSE BodyLoop(N)

parse_body(P, nontermIdx) ==
  BodyLoop([P EXCEPT !.cur = RootRef(nontermIdx), !.prev = RootRef(nontermIdx)])

----------------------------------------------------------------------------
(* regex.c: parse_regex and parse_regex_spec                               *)

parse_regex(P) ==
  LET p == SkipSpace(P, 1) IN
  IF BufAt(P, p) = NUL \/ BufAt(P, p) = "!" THEN P
  ELSE LET H == parse_header([P EXCEPT !.pos = p]) IN
       IF H.err # "none" THEN H
       ELSE LET B == parse_body(H, H.idx) IN
            IF B.err # "none" THEN B
            ELSE [B EXCEPT !.nonterms[H.idx + 1].complete = TRUE]

\* the parser's globals gathered for one call of parse_regex
ParserState(buf) ==
  [buf |-> buf, un |-> uninit, pos |-> 1, nonterms |-> nonterms,
   termPool |-> termPool, exprPool |-> exprPool, free |-> freeExprIdx,
   err |-> "none", termLog |-> termLog, nameLog |-> nameLog, op |-> NullOp,
   idx |-> -1,
   cur |-> NullOp, prev |-> NullOp]

\* the table index whose definition line parse_regex has just finished
JustCompleted(before, R) ==
  IF R.err # "none" THEN <<>>
  ELSE LET S == {i \in 0..(Len(R.nonterms) - 1) :
                   /\ R.nonterms[i + 1].complete
                   /\ (i < Len(before) => ~before[i + 1].complete)}
       IN IF S = {} THEN <<>> ELSE <<CHOOSE i \in S : TRUE>>

\* What the process does once parse_regex has returned R. A write at index
\* MAX_NONTERM_NAME or beyond of a name storage is undefined: the process
\* goes on with the bytes landed outside the name, or it is stopped
\* (a fault, a stack check), or the bytes have landed in the fields that
\* follow name[] in the entry.
Outcomes(before, R) ==
  LET new == {k \in (Len(before) + 1)..Len(R.nameLog) :
                R.nameLog[k].size >= MAX_NONTERM_NAME}
      hit == {R.nameLog[k].entry : k \in new} \ {-1}
  IN  IF new = {} THEN {R}
      ELSE {R, Fatal(R, "name[] overrun")} \cup
           {[R EXCEPT !.nonterms[i + 1].expr.type = "garbage"] :
              i \in {j \in hit : j < Len(R.nonterms) /\ ~R.nonterms[j + 1].complete}}

\* one iteration of the fgets loop of parse_regex_spec
ReadLine ==
  /\ phase = "parse"
  /\ stdin # <<>>
  /\ stdin' = Tail(stdin)
  /\ \E R \in Outcomes(nameLog,
                     parse_regex(ParserState(fgets(regexSpecLine, Head(stdin))))) :
       /\ regexSpecLine' = R.buf
       /\ currentLine' = currentLine + 1
       /\ nonterms' = R.nonterms
       /\ currentNonterm' = Len(R.nonterms)
       /\ termPool' = R.termPool
       /\ exprPool' = R.exprPool
       /\ freeExprIdx' = R.free
       /\ termLog' = R.termLog
       /\ nameLog' = R.nameLog
       /\ defLog' = defLog \o JustCompleted(nonterms, R)
       /\ err' = R.err
       /\ phase' = IF R.err = "none" THEN "parse" ELSE "error"
  /\ UNCHANGED <<uninit, nfaVars, driverVars, lastComb, output>>

----------------------------------------------------------------------------
(* nfa.c: the three pools.  N = [states, edges, nfas]; the cursors          *)
(* currentNFAState, currentNFAEdge and currentNFA are the lengths.          *)

Pools == [states |-> nfaStatesPool, edges |-> nfaEdgePool, nfas |-> nfaPool]

currentNFAState == Len(nfaStatesPool)

currentNFAEdge == Len(nfaEdgePool)

currentNFA == Len(nfaPool)

\* new_state returns currentNFAState++ : the index of the state it appends
new_state(N, type) ==
  [N EXCEPT !.states = Append(@, [edges |-> <<>>, type |-> type,
                                  visited |-> FALSE])]

new_start_state(N) == new_state(N, "START")

new_accepting_state(N) == new_state(N, "ACCEPTING")

\* new_edge returns currentNFAEdge++ : the index of the edge it appends
new_edge(N, target, symbol) ==
  [N EXCEPT !.edges = Append(@, [target |-> target, symbol |-> symbol])]

\* new_nfa returns currentNFA++ : a handle on a fresh START/ACCEPTING pair
new_nfa(N) ==
  LET N1 == new_start_state(N)
      N2 == new_accepting_state(N1)
  IN  [N2 EXCEPT !.nfas = Append(@, [start |-> Len(N.states),
                                     accepting |-> Len(N1.states)])]

update_state_type(N, stateIdx, newType) ==
  [N EXCEPT !.states[stateIdx + 1].type = newType]

\* state->edges[state->numEdges] = edgeIdx; state->numEdges++
AppendEdge(N, stateIdx, edgeIdx) ==
  [N EXCEPT !.states[stateIdx + 1].edges = Append(@, edgeIdx)]

build_single_symbol_nfa(N, symbol) ==
  LET N1 == new_nfa(N)
      nfa == N1.nfas[Len(N1.nfas)]
      N2 == new_edge(N1, nfa.accepting, symbol)
  IN  AppendEdge(N2, nfa.start, Len(N1.edges))

\* build_concat_nfa without the demotion of nfa2's start state
build_concat_nfa_KeepsStart(N, nfa1Idx, nfa2Idx) ==
  LET nfa1 == N.nfas[nfa1Idx + 1]
      nfa2 == N.nfas[nfa2Idx + 1]
      N1 == update_state_type(N, nfa1.accepting, "INTERNAL")
      N2 == new_edge(N1, nfa2.start, EPSILON)
      N3 == AppendEdge(N2, nfa1.accepting, Len(N1.edges))
  IN  [N3 EXCEPT !.nfas[nfa1Idx + 1].accepting = nfa2.accepting]

\* build_concat_nfa without the update of nfa1's accepting state
build_concat_nfa_KeepsAccepting(N, nfa1Idx, nfa2Idx) ==
  LET nfa1 == N.nfas[nfa1Idx + 1]
      nfa2 == N.nfas[nfa2Idx + 1]
      N1 == update_state_type(N, nfa1.accepting, "INTERNAL")
      N2 == new_edge(N1, nfa2.start, EPSILON)
      N3 == AppendEdge(N2, nfa1.accepting, Len(N1.edges))
  IN  update_state_type(N3, N3.nfas[nfa2Idx + 1].start, "INTERNAL")

\* build_concat_nfa that also makes nfa2 the handle of the result
build_concat_nfa_UpdatesBoth(N, nfa1Idx, nfa2Idx) ==
  LET nfa1 == N.nfas[nfa1Idx + 1]
      nfa2 == N.nfas[nfa2Idx + 1]
      N1 == update_state_type(N, nfa1.accepting, "INTERNAL")
      N2 == new_edge(N1, nfa2.start, EPSILON)
      N3 == AppendEdge(N2, nfa1.accepting, Len(N1.edges))
      N4 == [N3 EXCEPT !.nfas[nfa1Idx + 1].accepting = nfa2.accepting]
      N5 == update_state_type(N4, nfa2.start, "INTERNAL")
  IN  [N5 EXCEPT !.nfas[nfa2Idx + 1].start = nfa1.start]

build_concat_nfa(N, nfa1Idx, nfa2Idx) ==
  LET nfa1 == N.nfas[nfa1Idx + 1]
      nfa2 == N.nfas[nfa2Idx + 1]
      N1 == update_state_type(N, nfa1.accepting, "INTERNAL")
      N2 == new_edge(N1, nfa2.start, EPSILON)
      N3 == AppendEdge(N2, nfa1.accepting, Len(N1.edges))
      N4 == [N3 EXCEPT !.nfas[nfa1Idx + 1].accepting = nfa2.accepting]
  IN  update_state_type(N4, N4.nfas[nfa2Idx + 1].start, "INTERNAL")

\* build_or_nfa without the edge from nfa2's accepting state to the new one
build_or_nfa_OneBranch(N, nfa1Idx, nfa2Idx) ==
  LET newStartIdx == Len(N.states)
      Na == new_start_state(N)
      newAcceptingIdx == Len(Na.states)
      Nb == new_accepting_state(Na)
      nfa1StartIdx == Nb.nfas[nfa1Idx + 1].start
      nfa1AcceptingIdx == Nb.nfas[nfa1Idx + 1].accepting
      nfa2StartIdx == Nb.nfas[nfa2Idx + 1].start
      nfa2AcceptingIdx == Nb.nfas[nfa2Idx + 1].accepting
      N1 == update_state_type(Nb, nfa1StartIdx, "INTERNAL")
      N2 == update_state_type(N1, nfa1AcceptingIdx, "INTERNAL")
      N3 == update_state_type(N2, nfa2StartIdx, "INTERNAL")
      N4 == update_state_type(N3, nfa2AcceptingIdx, "INTERNAL")
      N5 == new_edge(N4, nfa1StartIdx, EPSILON)
      N6 == new_edge(N5, nfa2StartIdx, EPSILON)
      N7 == [N6 EXCEPT !.states[newStartIdx + 1].edges =
                          <<Len(N4.edges), Len(N5.edges)>>]
      N8 == new_edge(N7, newAcceptingIdx, EPSILON)
      N9 == AppendEdge(N8, nfa1AcceptingIdx, Len(N7.edges))
  IN  [N9 EXCEPT !.nfas[nfa1Idx + 1] =
         [start |-> newStartIdx, accepting |-> newAcceptingIdx]]

build_or_nfa(N, nfa1Idx, nfa2Idx) ==
  LET newStartIdx == Len(N.states)
      Na == new_start_state(N)
      newAcceptingIdx == Len(Na.states)
      Nb == new_accepting_state(Na)
      nfa1StartIdx == Nb.nfas[nfa1Idx + 1].start
      nfa1AcceptingIdx == Nb.nfas[nfa1Idx + 1].accepting
      nfa2StartIdx == Nb.nfas[nfa2Idx + 1].start
      nfa2AcceptingIdx == Nb.nfas[nfa2Idx + 1].accepting
      N1 == update_state_type(Nb, nfa1StartIdx, "INTERNAL")
      N2 == update_state_type(N1, nfa1AcceptingIdx, "INTERNAL")
      N3 == update_state_type(N2, nfa2StartIdx, "INTERNAL")
      N4 == update_state_type(N3, nfa2AcceptingIdx, "INTERNAL")
      N5 == new_edge(N4, nfa1StartIdx, EPSILON)
      N6 == new_edge(N5, nfa2StartIdx, EPSILON)
      N7 == [N6 EXCEPT !.states[newStartIdx + 1].edges =
                          <<Len(N4.edges), Len(N5.edges)>>]
      N8 == new_edge(N7, newAcceptingIdx, EPSILON)
      N9 == AppendEdge(N8, nfa1AcceptingIdx, Len(N7.edges))
      N10 == new_edge(N9, newAcceptingIdx, EPSILON)
      N11 == AppendEdge(N10, nfa2AcceptingIdx, Len(N9.edges))
  IN  [N11 EXCEPT !.nfas[nfa1Idx + 1] =
         [start |-> newStartIdx, accepting |-> newAcceptingIdx]]

\* build_closure_nfa without the edge from the new start state to the new
\* accepting state
build_closure_nfa_NoBypass(N, nfaIdx) ==
  LET newStartIdx == Len(N.states)
      Na == new_start_state(N)
      newAcceptingIdx == Len(Na.states)
      Nb == new_accepting_state(Na)
      nfaStartIdx == Nb.nfas[nfaIdx + 1].start
      nfaAcceptingIdx == Nb.nfas[nfaIdx + 1].accepting
      N1 == update_state_type(Nb, nfaStartIdx, "INTERNAL")
      N2 == update_state_type(N1, nfaAcceptingIdx, "INTERNAL")
      N3 == new_edge(N2, nfaStartIdx, EPSILON)
      N5 == [N3 EXCEPT !.states[newStartIdx + 1].edges = <<Len(N2.edges)>>]
      N6 == new_edge(N5, nfaStartIdx, EPSILON)
      N7 == AppendEdge(N6, nfaAcceptingIdx, Len(N5.edges))
      N8 == new_edge(N7, newAcceptingIdx, EPSILON)
      N9 == AppendEdge(N8, nfaAcceptingIdx, Len(N7.edges))
  IN  [N9 EXCEPT !.nfas[nfaIdx + 1] =
         [start |-> newStartIdx, accepting |-> newAcceptingIdx]]

\* build_closure_nfa with the back edge of the old accepting state going to
\* the new start state
build_closure_nfa_LoopsToNewStart(N, nfaIdx) ==
  LET newStartIdx == Len(N.states)
      Na == new_start_state(N)
      newAcceptingIdx == Len(Na.states)
      Nb == new_accepting_state(Na)
      nfaStartIdx == Nb.nfas[nfaIdx + 1].start
      nfaAcceptingIdx == Nb.nfas[nfaIdx + 1].accepting
      N1 == update_state_type(Nb, nfaStartIdx, "INTERNAL")
      N2 == update_state_type(N1, nfaAcceptingIdx, "INTERNAL")
      N3 == new_edge(N2, nfaStartIdx, EPSILON)
      N4 == new_edge(N3, newAcceptingIdx, EPSILON)
      N5 == [N4 EXCEPT !.states[newStartIdx + 1].edges =
                          <<Len(N2.edges), Len(N3.edges)>>]
      N6 == new_edge(N5, newStartIdx, EPSILON)
      N7 == AppendEdge(N6, nfaAcceptingIdx, Len(N5.edges))
      N8 == new_edge(N7, newAcceptingIdx, EPSILON)
      N9 == AppendEdge(N8, nfaAcceptingIdx, Len(N7.edges))
  IN  [N9 EXCEPT !.nfas[nfaIdx + 1] =
         [start |-> newStartIdx, accepting |-> newAcceptingIdx]]

build_closure_nfa(N, nfaIdx) ==
  LET newStartIdx == Len(N.states)
      Na == new_start_state(N)
      newAcceptingIdx == Len(Na.states)
      Nb == new_accepting_state(Na)
      nfaStartIdx == Nb.nfas[nfaIdx + 1].start
      nfaAcceptingIdx == Nb.nfas[nfaIdx + 1].accepting
      N1 == update_state_type(Nb, nfaStartIdx, "INTERNAL")
      N2 == update_state_type(N1, nfaAcceptingIdx, "INTERNAL")
      N3 == new_edge(N2, nfaStartIdx, EPSILON)
      N4 == new_edge(N3, newAcceptingIdx, EPSILON)
      N5 == [N4 EXCEPT !.states[newStartIdx + 1].edges =
                          <<Len(N2.edges), Len(N3.edges)>>]
      N6 == new_edge(N5, nfaStartIdx, EPSILON)
      N7 == AppendEdge(N6, nfaAcceptingIdx, Len(N5.edges))
      N8 == new_edge(N7, newAcceptingIdx, EPSILON)
      N9 == AppendEdge(N8, nfaAcceptingIdx, Len(N7.edges))
  IN  [N9 EXCEPT !.nfas[nfaIdx + 1] =
         [start |-> newStartIdx, accepting |-> newAcceptingIdx]]

\* strlen(terminal) and the bytes up to the NUL, for terminal = termTable + off
RECURSIVE TermString(_, _)
TermString(pool, off) ==
  IF off >= Len(pool) \/ pool[off + 1] = NUL THEN <<>>
  ELSE <<pool[off + 1]>> \o TermString(pool, off + 1)

\* the while loop of build_terminal_nfa; the result carries prevStateIdx
RECURSIVE TerminalChain(_, _, _)
TerminalChain(N, prevStateIdx, terminal) ==
  IF terminal = <<>> THEN [N |-> N, prevStateIdx |-> prevStateIdx]
  ELSE LET currentStateIdx == Len(N.states)
           N1 == new_state(N, "INTERNAL")
           N2 == new_edge(N1, currentStateIdx, Head(terminal))
           N3 == [N2 EXCEPT !.states[prevStateIdx + 1].edges = <<Len(N1.edges)>>]
       IN  TerminalChain(N3, currentStateIdx, Tail(terminal))

\* build_terminal_nfa with `if` in place of `while`: only the first byte gets
\* an edge
build_terminal_nfa_FirstByteOnly(N, terminal) ==
  LET startIdx == Len(N.states)
      N1 == new_start_state(N)
      C  == TerminalChain(N1, startIdx, SubSeq(terminal, 1, 1))
      N2 == update_state_type(C.N, C.prevStateIdx, "ACCEPTING")
      N3 == new_nfa(N2)
  IN  [N3 EXCEPT !.nfas[Len(N3.nfas)] =
         [start |-> startIdx, accepting |-> C.prevStateIdx]]

\* build_terminal_nfa, for a terminal of length > 0; returns currentNFA++
build_terminal_nfa(N, terminal) ==
  LET startIdx == Len(N.states)
      N1 == new_start_state(N)
      C  == TerminalChain(N1, startIdx, terminal)
      N2 == update_state_type(C.N, C.prevStateIdx, "ACCEPTING")
      N3 == new_nfa(N2)
  IN  [N3 EXCEPT !.nfas[Len(N3.nfas)] =
         [start |-> startIdx, accepting |-> C.prevStateIdx]]

----------------------------------------------------------------------------
(* nfa.c: the driver.  The recursion build_non_terminal_nfa ->               *)
(* build_regex_expr_nfa -> build_expr_op_nfa is run one call at a time on    *)
(* an explicit stack of frames:                                              *)
(*   fn = "nonterm": build_non_terminal_nfa(arg.idx), waiting for its expr   *)
(*   fn = "expr"   : build_regex_expr_nfa(arg), at pc                        *)
(*     "op1"/"op2" about to call build_expr_op_nfa for that operand          *)
(*     "wait1"/"wait2" inside that call                                      *)
(*     "apply" about to run its combinator, "ret" about to return op1NFA     *)

Frame(fn, arg, pc) == [fn |-> fn, arg |-> arg, pc |-> pc, op1NFA |-> -1, op2NFA |-> -1]

Top == stack[Len(stack)]

ExprAt(r) ==
  IF r.tag = "root" THEN nonterms[r.idx + 1].expr ELSE exprPool[r.idx + 1]

\* The operand tag build_expr_op_nfa switches on.  regex.c tags every leaf
\* LEAF_OPERATOR; the tag of regex.h is the arena the pointer points into.
OperandType(op, opType) ==
  IF opType = "LEAF_OPERATOR"
  THEN IF op.tag = "nonterm" THEN "NON_TERMINAL" ELSE "TERMINAL"
  ELSE opType

\* the operand the top frame is about to build
TopOperand ==
  LET e == ExprAt(Top.arg) IN
  IF Top.pc = "op1" THEN [op |-> e.op1, type |-> OperandType(e.op1, e.op1Type)]
  ELSE [op |-> e.op2, type |-> OperandType(e.op2, e.op2Type)]

\* where build_regex_expr_nfa goes once op1NFA is known: the switch on type
AfterOp1(type) ==
  IF type = "NO_OP" THEN "ret"
  ELSE IF type = "ZERO_OR_MORE" THEN "apply"
  ELSE "op2"

\* the frame that receives the value v of the call it was waiting for
Resume(f, v) ==
  IF f.fn = "nonterm" THEN [f EXCEPT !.op1NFA = v, !.pc = "ret"]
  ELSE IF f.pc = "wait1"
       THEN [f EXCEPT !.op1NFA = v, !.pc = AfterOp1(ExprAt(f.arg).type)]
       ELSE [f EXCEPT !.op2NFA = v, !.pc = "apply"]

Waiting(f) == [f EXCEPT !.pc = IF f.pc = "op1" THEN "wait1" ELSE "wait2"]

\* build_non_terminal_nfa(nontermIdx) entered from the frames below it:
\* it calls build_regex_expr_nfa(nontermTable[nontermIdx].expr) at once
EnterNonTerminal(below, nontermIdx) ==
  below \o <<Frame("nonterm", NontermOp(nontermIdx), "wait1"),
             Frame("expr", RootRef(nontermIdx), "op1")>>

Abort(reason) ==
  /\ phase' = "error"
  /\ err' = reason
  /\ UNCHANGED <<stdin, uninit, parserVars, nfaVars, driverVars, lastComb, output>>

SetPools(N) ==
  /\ nfaStatesPool' = N.states
  /\ nfaEdgePool' = N.edges
  /\ nfaPool' = N.nfas

\* main: parse_regex_spec returns currentNonterm at end of input and
\* build_nfa starts: the memset of nontermToNFAMap
EndOfInput ==
  /\ phase = "parse"
  /\ stdin = <<>>
  /\ phase' = "build"
  /\ nontermTableSize' = currentNonterm
  /\ nontermToNFAMap' = [i \in 1..currentNonterm |-> -1]
  /\ loopIdx' = 0
  /\ stack' = <<>>
  /\ UNCHANGED <<stdin, err, uninit, parserVars, nfaVars, lastComb, output>>

\* build_nfa, first loop: build_non_terminal_nfa(i)
BuildNonTerminal ==
  /\ phase = "build"
  /\ stack = <<>>
  /\ loopIdx < nontermTableSize
  /\ stack' = EnterNonTerminal(<<>>, loopIdx)
  /\ UNCHANGED <<stdin, phase, err, uninit, parserVars, nfaVars, nontermToNFAMap,
                 nontermTableSize, loopIdx, lastComb, output>>

\* build_nfa, between the loops
BuildLoopDone ==
  /\ phase = "build"
  /\ stack = <<>>
  /\ loopIdx >= nontermTableSize
  /\ phase' = "union"
  /\ loopIdx' = 1
  /\ UNCHANGED <<stdin, err, uninit, parserVars, nfaVars, nontermToNFAMap,
                 nontermTableSize, stack, lastComb, output>>

\* build_expr_op_nfa for a NESTED_EXPRESSION or NON_TERMINAL operand: a call
CallOperand ==
  /\ phase = "build"
  /\ stack # <<>>
  /\ Top.fn = "expr"
  /\ Top.pc \in {"op1", "op2"}
  /\ TopOperand.type # "TERMINAL"
  /\ LET o == TopOperand
         below == [stack EXCEPT ![Len(stack)] = Waiting(Top)]
     IN  IF o.type = "NOTHING" THEN Abort("assert:NOTHING operand")
         ELSE IF o.op.tag = "null" THEN Abort("NULL expression")
         ELSE IF Len(stack) + 2 > MaxDepth THEN Abort("stack exhausted")
         ELSE /\ stack' = IF o.type = "NON_TERMINAL"
                          THEN EnterNonTerminal(below, o.op.idx)
                          ELSE Append(below, Frame("expr", o.op, "op1"))
              /\ UNCHANGED <<stdin, phase, err, uninit, parserVars, nfaVars,
                             nontermToNFAMap, nontermTableSize, loopIdx,
                             lastComb, output>>

\* build_expr_op_nfa for a TERMINAL operand: build_terminal_nfa
BuildTerminal ==
  /\ phase = "build"
  /\ stack # <<>>
  /\ Top.fn = "expr"
  /\ Top.pc \in {"op1", "op2"}
  /\ TopOperand.type = "TERMINAL"
  /\ LET terminal == TermString(termPool, TopOperand.op.idx)
         N == build_terminal_nfa(Pools, terminal)
         nfaIdx == currentNFA
     IN  IF Len(terminal) = 0 THEN Abort("assert:empty terminal")
         ELSE /\ SetPools(N)
              /\ stack' = [stack EXCEPT ![Len(stack)] = Resume(Waiting(Top), nfaIdx)]
              /\ lastComb' = [op |-> "terminal", a |-> nfaIdx, b |-> -1]
              /\ UNCHANGED <<stdin, phase, err, uninit, parserVars, nontermToNFAMap,
                             nontermTableSize, loopIdx, output>>

\* build_regex_expr_nfa: the OR / AND / ZERO_OR_MORE case of the switch
ApplyOperator ==
  /\ phase = "build"
  /\ stack # <<>>
  /\ Top.fn = "expr"
  /\ Top.pc = "apply"
  /\ LET type == ExprAt(Top.arg).type
         a == Top.op1NFA
         b == Top.op2NFA
     IN  IF type # "ZERO_OR_MORE" /\ a = b THEN Abort("assert:same NFA")
         ELSE /\ SetPools(IF type = "OR" THEN build_or_nfa(Pools, a, b)
                          ELSE IF type = "AND" THEN build_concat_nfa(Pools, a, b)
                          ELSE build_closure_nfa(Pools, a))
              /\ lastComb' = IF type = "OR" THEN [op |-> "or", a |-> a, b |-> b]
                             ELSE IF type = "AND" THEN [op |-> "concat", a |-> a, b |-> b]
                             ELSE [op |-> "closure", a |-> a, b |-> -1]
              /\ stack' = [stack EXCEPT ![Len(stack)].pc = "ret"]
              /\ UNCHANGED <<stdin, phase, err, uninit, parserVars, nontermToNFAMap,
                             nontermTableSize, loopIdx, output>>

\* return op1NFA from build_regex_expr_nfa, or nontermToNFAMap[nontermIdx]
\* from build_non_terminal_nfa after recording it
Return ==
  /\ phase = "build"
  /\ stack # <<>>
  /\ Top.pc = "ret"
  /\ LET v == Top.op1NFA
         rest == SubSeq(stack, 1, Len(stack) - 1)
     IN  IF rest = <<>>
         THEN /\ stack' = <<>>
              /\ loopIdx' = loopIdx + 1
              /\ UNCHANGED nontermToNFAMap
         ELSE /\ stack' = [rest EXCEPT ![Len(rest)] = Resume(rest[Len(rest)], v)]
              /\ nontermToNFAMap' =
                   IF rest[Len(rest)].fn = "nonterm"
                   THEN [nontermToNFAMap EXCEPT ![rest[Len(rest)].arg.idx + 1] = v]
                   ELSE nontermToNFAMap
              /\ UNCHANGED loopIdx
  /\ UNCHANGED <<stdin, phase, err, uninit, parserVars, nfaVars, nontermTableSize,
                 lastComb, output>>

\* build_nfa, second loop: build_or_nfa(nontermToNFAMap[0], nontermToNFAMap[i])
UnionStep ==
  /\ phase = "union"
  /\ loopIdx < nontermTableSize
  /\ LET a == nontermToNFAMap[1]
         b == nontermToNFAMap[loopIdx + 1]
     IN  IF a = b THEN Abort("assert:same NFA")
         ELSE /\ SetPools(build_or_nfa(Pools, a, b))
              /\ lastComb' = [op |-> "or", a |-> a, b |-> b]
              /\ loopIdx' = loopIdx + 1
              /\ UNCHANGED <<stdin, phase, err, uninit, parserVars, nontermToNFAMap,
                             nontermTableSize, stack, output>>

\* build_nfa, after the second loop
UnionLoopDone ==
  /\ phase = "union"
  /\ loopIdx >= nontermTableSize
  /\ phase' = "print"
  /\ UNCHANGED <<stdin, err, uninit, parserVars, nfaVars, driverVars, lastComb, output>>

----------------------------------------------------------------------------
(* nfa.c: the Graphviz emitter                                             *)

\* print_state_graphviz: G = [states, out].  A visited state returns at once;
\* otherwise it is marked, its edges are printed, then each target is visited.
RECURSIVE print_state_graphviz(_, _, _)
RECURSIVE VisitTargets(_, _, _, _)
print_state_graphviz(G, edges, stateIdx) ==
  LET state == G.states[stateIdx + 1] IN
  IF state.visited THEN G
  ELSE LET lines == [i \in 1..Len(state.edges) |->
                       [kind |-> "edge", from |-> stateIdx,
                        to |-> edges[state.edges[i] + 1].target,
                        label |-> edges[state.edges[i] + 1].symbol]]
           G1 == [states |-> [G.states EXCEPT ![stateIdx + 1].visited = TRUE],
                  out |-> (G.out \o <<[kind |-> "state", from |-> stateIdx,
                                       to |-> stateIdx, label |-> state.type]>>)
                          \o lines]
       IN  VisitTargets(G1, edges, stateIdx, 1)

\* the second loop of print_state_graphviz stopping after the first edge
RECURSIVE VisitTargets_FirstEdgeOnly(_, _, _, _)
VisitTargets_FirstEdgeOnly(G, edges, stateIdx, i) ==
  IF i > Len(G.states[stateIdx + 1].edges) \/ i > 1 THEN G
  ELSE VisitTargets_FirstEdgeOnly(
         print_state_graphviz(G, edges,
                              edges[G.states[stateIdx + 1].edges[i] + 1].target),
         edges, stateIdx, i + 1)

VisitTargets(G, edges, stateIdx, i) ==
  IF i > Len(G.states[stateIdx + 1].edges) THEN G
  ELSE VisitTargets(
         print_state_graphviz(G, edges,
                              edges[G.states[stateIdx + 1].edges[i] + 1].target),
         edges, stateIdx, i + 1)

\* nontermToNFAMap[i], an array of MAX_NFAS entries the memset filled with -1
MapAt(i) == IF i < Len(nontermToNFAMap) THEN nontermToNFAMap[i + 1] ELSE -1

\* build_nfa: print_nfa_graphviz(nontermToNFAMap[0]), then main returns
PrintGraphviz ==
  /\ phase = "print"
  /\ MapAt(0) # -1
  /\ LET G == print_state_graphviz([states |-> nfaStatesPool, out |-> <<>>],
                                   nfaEdgePool, nfaPool[MapAt(0) + 1].start)
     IN  /\ nfaStatesPool' = G.states
         /\ output' = G.out
  /\ phase' = "done"
  /\ UNCHANGED <<stdin, err, uninit, parserVars, nfaEdgePool, nfaPool, driverVars,
                 lastComb>>

\* print_nfa_graphviz(-1): nfaPool[-1] is read outside the array; the process
\* either faults or prints from whatever state index the read produced
PrintOutOfBounds ==
  /\ phase = "print"
  /\ MapAt(0) = -1
  /\ \/ /\ phase' = "error"
        /\ err' = "nfaPool[-1]"
        /\ UNCHANGED output
     \/ /\ phase' = "done"
        /\ err' = "none"
        /\ output' = <<[kind |-> "state", from |-> -1, to |-> -1,
                        label |-> "garbage"]>>
  /\ UNCHANGED <<stdin, uninit, parserVars, nfaVars, driverVars, lastComb>>

----------------------------------------------------------------------------
(* The input: definition lines over three names                            *)

Names == {"x", "y", "z"}

Header(n) == <<"$", n, " ", ":", "=", " ">>

Bodies ==
  { <<"a">>,
    <<"a", " ", "b", "*", " ", "c">>,
    <<"$", "y", " ", "c">>,
    <<"a", " ", "|", " ", "b">>,
    <<"a", " ", "$", "x">> }

InputLines ==
  {Header(n) \o b \o <<NL>> : n \in Names, b \in Bodies} \cup {<<"!", " ", "c", NL>>}

\* the files of at most n lines
RECURSIVE Files(_, _)
Files(lines, n) ==
  IF n = 0 THEN {<<>>}
  ELSE Files(lines, n - 1) \cup
       {Append(f, l) : f \in {g \in Files(lines, n - 1) : Len(g) = n - 1},
                       l \in lines}

----------------------------------------------------------------------------
(* The program: parse standard input, then build and print the NFA         *)

InitWith(files) ==
  /\ stdin \in files
  /\ phase = "parse"
  /\ err = "none"
  /\ regexSpecLine = <<>>
  /\ uninit \in {NUL, "@"}
  /\ nonterms = <<>>
  /\ currentNonterm = 0
  /\ termPool = <<>>
  /\ exprPool = <<>>
  /\ freeExprIdx = 0
  /\ currentLine = 0
  /\ termLog = <<>>
  /\ defLog = <<>>
  /\ nameLog = <<>>
  /\ nfaStatesPool = <<>>
  /\ nfaEdgePool = <<>>
  /\ nfaPool = <<>>
  /\ nontermToNFAMap = <<>>
  /\ nontermTableSize = 0
  /\ loopIdx = 0
  /\ stack = <<>>
  /\ lastComb = [op |-> "none", a |-> -1, b |-> -1]
  /\ output = <<>>

Init == InitWith(Files(InputLines, MaxLines))

Next ==
  \/ ReadLine
  \/ EndOfInput
  \/ BuildNonTerminal
  \/ CallOperand
  \/ BuildTerminal
  \/ ApplyOperator
  \/ Return
  \/ BuildLoopDone
  \/ UnionStep
  \/ UnionLoopDone
  \/ PrintGraphviz
  \/ PrintOutOfBounds

Spec == Init /\ [][Next]_vars

----------------------------------------------------------------------------
(* The combinator driver of the earlier nfa.c: build_nfa makes single      *)
(* symbol NFAs and applies the combinators to their handles directly       *)

\* the symbol of the k-th single-symbol NFA: 'a', 'b', 'c', and again
HarnessSymbol(k) == <<"a", "b", "c">>[(k % 3) + 1]

HarnessInit ==
  /\ stdin = <<>>
  /\ phase = "harness"
  /\ err = "none"
  /\ regexSpecLine = <<>>
  /\ uninit = NUL
  /\ nonterms = <<>>
  /\ currentNonterm = 0
  /\ termPool = <<>>
  /\ exprPool = <<>>
  /\ freeExprIdx = 0
  /\ currentLine = 0
  /\ termLog = <<>>
  /\ defLog = <<>>
  /\ nameLog = <<>>
  /\ nfaStatesPool = <<>>
  /\ nfaEdgePool = <<>>
  /\ nfaPool = <<>>
  /\ nontermToNFAMap = <<>>
  /\ nontermTableSize = 0
  /\ loopIdx = 0
  /\ stack = <<>>
  /\ lastComb = [op |-> "none", a |-> -1, b |-> -1, before |-> Pools]
  /\ output = <<>>

Handles == 0..(currentNFA - 1)

HarnessApply(N, op, a, b) ==
  /\ SetPools(N)
  /\ lastComb' = [op |-> op, a |-> a, b |-> b, before |-> Pools]
  /\ UNCHANGED <<stdin, phase, err, uninit, parserVars, driverVars, output>>

HarnessSingleSymbol ==
  /\ phase = "harness"
  /\ currentNFA < MaxHarnessNFAs
  /\ HarnessApply(build_single_symbol_nfa(Pools, HarnessSymbol(currentNFA)),
                  "symbol", currentNFA, -1)

HarnessConcat ==
  /\ phase = "harness"
  /\ currentNFAEdge < MaxHarnessEdges
  /\ \E a, b \in Handles :
       IF a = b THEN Abort("assert:same NFA")
       ELSE HarnessApply(build_concat_nfa(Pools, a, b), "concat", a, b)

HarnessOr ==
  /\ phase = "harness"
  /\ currentNFAEdge < MaxHarnessEdges
  /\ \E a, b \in Handles :
       IF a = b THEN Abort("assert:same NFA")
       ELSE HarnessApply(build_or_nfa(Pools, a, b), "or", a, b)

HarnessClosure ==
  /\ phase = "harness"
  /\ currentNFAEdge < MaxHarnessEdges
  /\ \E a \in Handles :
       HarnessApply(build_closure_nfa(Pools, a), "closure", a, -1)

HarnessNext ==
  \/ HarnessSingleSymbol
  \/ HarnessConcat
  \/ HarnessOr
  \/ HarnessClosure

SpecComb == HarnessInit /\ [][HarnessNext]_vars

----------------------------------------------------------------------------
(* The parser alone, on lines whose operands use the escape character      *)

\* parse_operand's arguments to memcpy2: escape character and the two tables
escapeChar == "@"

toEscape == <<"_", "@", "|", "*", "$">>

toPut == <<" ", "@", "|", "*", "$">>

RunChars == {"a", "@", "_", "*"}

\* the byte sequences of length 1..n over RunChars
RECURSIVE Runs(_)
Runs(n) ==
  IF n = 0 THEN {}
  ELSE {<<c>> : c \in RunChars} \cup Runs(n - 1) \cup
       {Append(r, c) : r \in {q \in Runs(n - 1) : Len(q) = n - 1}, c \in RunChars}

\* $x := run   and   $x := run | run
EscapeLines ==
  {Header("x") \o r \o <<NL>> : r \in Runs(MaxRunLen)} \cup
  {Header("x") \o r1 \o <<" ", "|", " ">> \o r2 \o <<NL>> :
     r1 \in Runs(MaxRunLen), r2 \in Runs(MaxRunLen)}

ParseInit == InitWith({<<l>> : l \in EscapeLines})

SpecParse == ParseInit /\ [][ReadLine]_vars

----------------------------------------------------------------------------
(* The program on grammars whose names share a prefix and whose bodies     *)
(* may be a bare reference                                                 *)

TableNames == {<<"a">>, <<"a", "b">>, <<"b">>}

HeaderOf(name) == <<"$">> \o name \o <<" ", ":", "=", " ">>

TableBodies ==
  { <<"c">>,
    <<"$", "a">>,
    <<"$", "a", "b">>,
    <<"c", " ", "$", "b">> }

TableLines == {HeaderOf(n) \o b \o <<NL>> : n \in TableNames, b \in TableBodies}

TableInit == InitWith(Files(TableLines, MaxLines))

SpecTable == TableInit /\ [][Next]_vars

----------------------------------------------------------------------------
(* What an automaton accepts, for words of at most MaxStrLen bytes          *)

\* targets of the edges of the states in S that carry symbol c
Move(N, S, c) ==
  {N.edges[e + 1].target :
     e \in UNION {{N.states[q + 1].edges[i] : i \in 1..Len(N.states[q + 1].edges)}
                    : q \in S} \cap
           {e \in 0..(Len(N.edges) - 1) : N.edges[e + 1].symbol = c}}

RECURSIVE EpsClosure(_, _)
EpsClosure(N, S) ==
  LET T == S \cup Move(N, S, EPSILON)
  IN  IF T = S THEN S ELSE EpsClosure(N, T)

\* the states reachable from state s over any edges
RECURSIVE ReachFrom(_, _)
ReachFrom(N, S) ==
  LET T == S \cup {N.edges[e + 1].target :
                     e \in UNION {{N.states[q + 1].edges[i] :
                                     i \in 1..Len(N.states[q + 1].edges)} : q \in S}}
  IN  IF T = S THEN S ELSE ReachFrom(N, T)

Reachable(N, nfaIdx) == ReachFrom(N, {N.nfas[nfaIdx + 1].start})

Sigma(N) == {N.edges[e].symbol : e \in 1..Len(N.edges)} \ {EPSILON}

\* the words of length <= k leading from the state set S to state acc
RECURSIVE WordsFrom(_, _, _, _)
WordsFrom(N, S, acc, k) ==
  (IF acc \in S THEN {<<>>} ELSE {}) \cup
  (IF k = 0 THEN {}
   ELSE UNION {LET T == EpsClosure(N, Move(N, S, c))
               IN  IF T = {} THEN {}
                   ELSE {<<c>> \o w : w \in WordsFrom(N, T, acc, k - 1)}
               : c \in Sigma(N)})

\* L(handle) restricted to words of at most MaxStrLen bytes
NfaLang(N, nfaIdx) ==
  WordsFrom(N, EpsClosure(N, {N.nfas[nfaIdx + 1].start}),
            N.nfas[nfaIdx + 1].accepting, MaxStrLen)

Cat(A, B) == {w \in {u \o v : u \in A, v \in B} : Len(w) <= MaxStrLen}

RECURSIVE StarUpTo(_, _)
StarUpTo(A, k) == IF k = 0 THEN {<<>>} ELSE {<<>>} \cup Cat(A, StarUpTo(A, k - 1))

Star(A) == StarUpTo(A, MaxStrLen)

----------------------------------------------------------------------------
(* What a parsed expression denotes, for words of at most MaxStrLen bytes   *)

\* the non-terminals an expression refers to, the way the builder walks it
RECURSIVE ExprRefs(_, _)
ExprRefs(r, fuel) ==
  LET e == ExprAt(r)
      Of(op, opType) ==
        IF OperandType(op, opType) = "NON_TERMINAL" THEN {op.idx}
        ELSE IF OperandType(op, opType) = "NESTED_EXPRESSION" /\ op.tag # "null"
                /\ fuel > 0
             THEN ExprRefs(op, fuel - 1)
             ELSE {}
  IN  Of(e.op1, e.op1Type) \cup
      (IF e.type \in {"OR", "AND"} THEN Of(e.op2, e.op2Type) ELSE {})

Refs(i) == ExprRefs(RootRef(i), freeExprIdx + 1)

RECURSIVE RefsClosure(_)
RefsClosure(S) ==
  LET T == S \cup UNION {Refs(i) : i \in S}
  IN  IF T = S THEN S ELSE RefsClosure(T)

\* some name is defined, directly or not, in terms of itself
IsRecursive == \E i \in 0..(currentNonterm - 1) : i \in RefsClosure(Refs(i))

AllDefined == \A i \in 1..currentNonterm : nonterms[i].complete

RECURSIVE ExprLang(_, _)
ExprLang(r, fuel) ==
  LET e == ExprAt(r)
      Of(op, opType) ==
        LET t == OperandType(op, opType) IN
        IF fuel = 0 \/ op.tag = "null" THEN {}
        ELSE IF t = "TERMINAL"
        THEN {w \in {TermString(termPool, op.idx)} : Len(w) <= MaxStrLen}
        ELSE IF t = "NON_TERMINAL" THEN ExprLang(RootRef(op.idx), fuel - 1)
        ELSE IF t = "NESTED_EXPRESSION" THEN ExprLang(op, fuel - 1)
        ELSE {}
  IN  IF e.type = "NO_OP" THEN Of(e.op1, e.op1Type)
      ELSE IF e.type = "OR" THEN Of(e.op1, e.op1Type) \cup Of(e.op2, e.op2Type)
      ELSE IF e.type = "AND" THEN Cat(Of(e.op1, e.op1Type), Of(e.op2, e.op2Type))
      ELSE Star(Of(e.op1, e.op1Type))

\* the language of non-terminal i
NontermLang(i) == ExprLang(RootRef(i), freeExprIdx + currentNonterm + 1)

----------------------------------------------------------------------------
(* Properties of the driver                                                *)

TableIdx == 0..(nontermTableSize - 1)

\* C1: for a grammar whose names are all defined and none recursive, the NFA
\* left in nontermToNFAMap[0] when build_nfa has finished accepts a word iff
\* some non-terminal's language contains it.
C1_MasterAcceptsUnion ==
  (phase = "done" /\ err = "none" /\ nontermTableSize >= 1
     /\ AllDefined /\ ~IsRecursive)
  => NfaLang(Pools, MapAt(0)) = UNION {NontermLang(i) : i \in TableIdx}

\* a call of build_non_terminal_nfa(idx) is made in this step
CallsNonTerminal(idx) ==
  /\ Len(stack') > Len(stack)
  /\ \E k \in (Len(stack) + 1)..Len(stack') :
       stack'[k].fn = "nonterm" /\ stack'[k].arg.idx = idx

\* C2: build_non_terminal_nfa memoises: it starts building the expression of
\* a non-terminal only when nontermToNFAMap holds -1 for it, so that no
\* expression is built twice.
C2_Memoises ==
  [][\A idx \in TableIdx : CallsNonTerminal(idx) => MapAt(idx) = -1]_vars

\* C3: the recursion build_non_terminal_nfa -> build_regex_expr_nfa ->
\* build_non_terminal_nfa returns after finitely many calls, also on a
\* self-referential or mutually recursive grammar: build_non_terminal_nfa(i)
\* is never entered while a call for the same i is still active (the inner
\* call reads the same tables and would repeat the descent without end).
C3_DescentEnds ==
  \A j, k \in 1..Len(stack) :
    (j < k /\ stack[j].fn = "nonterm" /\ stack[k].fn = "nonterm")
      => stack[j].arg.idx # stack[k].arg.idx

StatesOfType(N, S, type) == {q \in S : N.states[q + 1].type = type}

\* C4: the handle the last combinator returned reaches exactly one START
\* state, its start, and exactly one ACCEPTING state, its accepting state;
\* every other state it reaches is INTERNAL.
C4_OneStartOneAccepting ==
  lastComb.op # "none" =>
    LET R == Reachable(Pools, lastComb.a)
        nfa == nfaPool[lastComb.a + 1]
    IN  /\ StatesOfType(Pools, R, "START") = {nfa.start}
        /\ StatesOfType(Pools, R, "ACCEPTING") = {nfa.accepting}
        /\ nfa.start # nfa.accepting

C4_Witness ==
  /\ phase = "union"
  /\ lastComb.op = "or"
  /\ \E q \in Reachable(Pools, lastComb.a) : nfaStatesPool[q + 1].type = "INTERNAL"
  /\ \E i \in 1..freeExprIdx : exprPool[i].type = "ZERO_OR_MORE"

----------------------------------------------------------------------------
(* Properties of the body parser                                           *)

\* the line parse_regex read last: the buffer up to its NUL
LastLine ==
  IF regexSpecLine = <<>> THEN <<>>
  ELSE SubSeq(regexSpecLine, 1,
              (CHOOSE i \in 1..Len(regexSpecLine) :
                 /\ regexSpecLine[i] = NUL
                 /\ \A j \in 1..(i - 1) : regexSpecLine[j] # NUL) - 1)

NamedIdx(n) ==
  CHOOSE i \in 0..(currentNonterm - 1) : nonterms[i + 1].name = <<"$", n>>

IsTerminal(op, opType, bytes) ==
  /\ OperandType(op, opType) = "TERMINAL"
  /\ TermString(termPool, op.idx) = bytes

\* And(a, And(ZeroOrMore(b), And(c, NoOp))) rooted at non-terminal i
TreeOfABStarC(i) ==
  LET root == nonterms[i + 1].expr IN
  /\ root.type = "AND"
  /\ IsTerminal(root.op1, root.op1Type, <<"a">>)
  /\ root.op2Type = "NESTED_EXPRESSION" /\ root.op2.tag = "pool"
  /\ LET parent == ExprAt(root.op2) IN
     /\ parent.type = "AND"
     /\ parent.op1Type = "NESTED_EXPRESSION" /\ parent.op1.tag = "pool"
     /\ LET closure == ExprAt(parent.op1) IN
        /\ closure.type = "ZERO_OR_MORE"
        /\ IsTerminal(closure.op1, closure.op1Type, <<"b">>)
        /\ closure.op2Type = "NOTHING" /\ closure.op2 = NullOp
     /\ parent.op2Type = "NESTED_EXPRESSION" /\ parent.op2.tag = "pool"
     /\ LET last == ExprAt(parent.op2) IN
        /\ last.type = "NO_OP"
        /\ IsTerminal(last.op1, last.op1Type, <<"c">>)
        /\ last.op2 = NullOp

RECURSIVE Repeat(_, _)
Repeat(c, n) == IF n = 0 THEN <<>> ELSE <<c>> \o Repeat(c, n - 1)

\* a b^n c for the n that fit in MaxStrLen bytes
ABStarC == {<<"a">> \o Repeat("b", n) \o <<"c">> : n \in 0..(MaxStrLen - 2)}

BodyABStarC == <<"a", " ", "b", "*", " ", "c">>

\* the line read last defined name n with the body `a b* c`
ReadABStarC(n) ==
  /\ phase # "error"
  /\ LastLine = Header(n) \o BodyABStarC \o <<NL>>

\* build_nfa has just built the NFA of non-terminal i in its first loop
JustBuilt(i) == phase = "build" /\ stack = <<>> /\ loopIdx = i + 1

\* C10: the body `a b* c` is parsed to And(a, And(ZeroOrMore(b), And(c, NoOp)))
\* with the ZeroOrMore node as the nested op1 of its parent, and the NFA
\* built for it accepts exactly the words a b^n c.
C10_ClosureBindsToOperand ==
  \A n \in Names :
    ReadABStarC(n) =>
      /\ TreeOfABStarC(NamedIdx(n))
      /\ JustBuilt(NamedIdx(n)) => NfaLang(Pools, MapAt(NamedIdx(n))) = ABStarC

C10_Witness ==
  \E n \in Names :
    /\ ReadABStarC(n)
    /\ JustBuilt(NamedIdx(n))
    /\ lastComb.op = "concat"
    /\ <<"a", "b", "b", "c">> \in NfaLang(Pools, MapAt(NamedIdx(n)))

----------------------------------------------------------------------------
(* Properties of the combinators, applied to handles directly              *)

\* the pools before the combinator applied last
Before == lastComb.before

\* the two handles the last combinator took were distinct and reached
\* disjoint sets of states
DisjointOperands ==
  /\ lastComb.a # lastComb.b
  /\ Reachable(Before, lastComb.a) \cap Reachable(Before, lastComb.b) = {}

Applied(op) == phase = "harness" /\ lastComb.op = op

\* C5: Concat(A, B) on distinct handles with disjoint reachable states leaves
\* in A the language L(A) . L(B).
C5_ConcatLanguage ==
  (Applied("concat") /\ DisjointOperands) =>
    NfaLang(Pools, lastComb.a) =
      Cat(NfaLang(Before, lastComb.a), NfaLang(Before, lastComb.b))

C5_Witness ==
  /\ Applied("concat") /\ DisjointOperands
  /\ Cardinality(NfaLang(Before, lastComb.a)) >= 2
  /\ \E w \in NfaLang(Pools, lastComb.a) : Len(w) >= 2

\* C6: Or(A, B) on distinct handles with disjoint reachable states leaves in
\* A the language L(A) \cup L(B).
C6_OrLanguage ==
  (Applied("or") /\ DisjointOperands) =>
    NfaLang(Pools, lastComb.a) =
      NfaLang(Before, lastComb.a) \cup NfaLang(Before, lastComb.b)

C6_Witness ==
  /\ Applied("or") /\ DisjointOperands
  /\ NfaLang(Before, lastComb.a) # NfaLang(Before, lastComb.b)
  /\ \E w \in NfaLang(Before, lastComb.b) : Len(w) >= 2

\* C7: Closure(A) leaves in A the language L(A)*: the empty word and every
\* concatenation of words of L(A).
C7_ClosureLanguage ==
  Applied("closure") =>
    NfaLang(Pools, lastComb.a) = Star(NfaLang(Before, lastComb.a))

C7_Witness ==
  /\ Applied("closure")
  /\ <<>> \notin NfaLang(Before, lastComb.a)
  /\ \E w \in NfaLang(Before, lastComb.a) : Len(w) >= 2
  /\ \E w \in NfaLang(Pools, lastComb.a) : Len(w) = 4

----------------------------------------------------------------------------
(* Properties of the terminal operands                                     *)

\* the byte the escape table puts for the pair @c
Escaped(c) ==
  IF \E i \in 1..Len(toEscape) : toEscape[i] = c
  THEN toPut[CHOOSE i \in 1..Len(toEscape) : toEscape[i] = c]
  ELSE c

\* a run read left to right: @c is a pair, any other byte stands for itself
RECURSIVE Decoded(_)
Decoded(run) ==
  IF run = <<>> THEN <<>>
  ELSE IF Head(run) = escapeChar
       THEN IF Len(run) = 1 THEN <<>>
            ELSE <<Escaped(run[2])>> \o Decoded(Tail(Tail(run)))
       ELSE <<Head(run)>> \o Decoded(Tail(run))

\* the run ends in an @ that completes no pair
RECURSIVE EndsInLoneEscape(_)
EndsInLoneEscape(run) ==
  IF run = <<>> THEN FALSE
  ELSE IF Head(run) = escapeChar
       THEN Len(run) = 1 \/ EndsInLoneEscape(Tail(Tail(run)))
       ELSE EndsInLoneEscape(Tail(run))

\* C8: every terminal operand stored holds its run decoded by the escape
\* table, with the NUL right after the decoded bytes.
C8_TerminalsStoredDecoded ==
  \A k \in 1..Len(termLog) :
    LET t == termLog[k]
        d == Decoded(t.run)
    IN  ~EndsInLoneEscape(t.run) =>
          /\ Len(termPool) >= t.off + Len(d) + 1
          /\ SubSeq(termPool, t.off + 1, t.off + Len(d)) = d
          /\ termPool[t.off + Len(d) + 1] = NUL

\* C9: a terminal run that ends in an @ completing no escape pair is never
\* stored: parse_operand stops with IncompleteEscape, whatever precedes the
\* @ in the run.
C9_LoneEscapeRejected ==
  \A k \in 1..Len(termLog) : ~EndsInLoneEscape(termLog[k].run)

----------------------------------------------------------------------------
(* Properties of the non-terminal table                                    *)

\* the name a definition line starts with: the bytes before the first blank
\* of a line that begins with $, else the empty sequence
LineName(line) ==
  IF line = <<>> \/ line[1] # "$" THEN <<>>
  ELSE SubSeq(line, 1,
              (CHOOSE i \in 1..Len(line) :
                 /\ isspace(line[i])
                 /\ \A j \in 1..(i - 1) : ~isspace(line[j])) - 1)

\* the table indices whose entry is complete
Completed == {i \in 0..(currentNonterm - 1) : nonterms[i + 1].complete}

\* the nodes of exprPool the expression of non-terminal i reaches over op1
\* and op2
RECURSIVE PoolReach(_, _)
PoolReach(S, fuel) ==
  LET Of(op) == IF op.tag = "pool" /\ op.idx < Len(exprPool) THEN {op.idx} ELSE {}
      T == S \cup UNION {Of(exprPool[k + 1].op1) \cup Of(exprPool[k + 1].op2) : k \in S}
  IN  IF T = S \/ fuel = 0 THEN S ELSE PoolReach(T, fuel - 1)

PoolNodesOf(i) ==
  LET root == nonterms[i + 1].expr
      Of(op) == IF op.tag = "pool" /\ op.idx < Len(exprPool) THEN {op.idx} ELSE {}
  IN  PoolReach(Of(root.op1) \cup Of(root.op2), Len(exprPool))

\* the next line of stdin defines a name whose entry is complete
NextLineRedefines ==
  /\ phase = "parse"
  /\ stdin # <<>>
  /\ \E i \in Completed : nonterms[i + 1].name = LineName(Head(stdin))

\* C11: a definition line whose name is already complete stops the parser
\* with Redefinition; a complete entry stays complete and its expression,
\* root and pool nodes, is never written again.
C11_NoRedefinition ==
  [][ /\ NextLineRedefines => (phase' = "error" /\ err' = "Redefinition")
      /\ \A i \in Completed :
           /\ currentNonterm' > i
           /\ nonterms'[i + 1] = nonterms[i + 1]
           /\ \A k \in PoolNodesOf(i) :
                Len(exprPool') > k /\ exprPool'[k + 1] = exprPool[k + 1]
    ]_vars

C11_Witness ==
  /\ phase = "error"
  /\ err = "Redefinition"
  /\ \E i \in Completed :
       /\ nonterms[i + 1].name = LineName(LastLine)
       /\ PoolNodesOf(i) # {}

\* a line split into its runs of non-blank bytes
RECURSIVE Tokens(_)
Tokens(line) ==
  IF line = <<>> THEN <<>>
  ELSE IF isspace(Head(line)) THEN Tokens(Tail(line))
  ELSE LET blanks == {i \in 1..Len(line) : isspace(line[i])}
           n == IF blanks = {} THEN Len(line)
                ELSE (CHOOSE i \in blanks : \A j \in blanks : i <= j) - 1
       IN  <<SubSeq(line, 1, n)>> \o Tokens(SubSeq(line, n + 1, Len(line)))

\* a run without the postfix * that parse_operand gives back
WithoutStar(run) ==
  IF Len(run) >= 2 /\ run[Len(run)] = "*" /\ run[Len(run) - 1] # "@"
  THEN SubSeq(run, 1, Len(run) - 1) ELSE run

\* the names a definition line `$n := body` uses as operands
OperandNames(line) ==
  LET toks == Tokens(line)
  IN  {WithoutStar(toks[k]) : k \in {j \in 3..Len(toks) : toks[j][1] = "$"}}

HasEntry(table, name) == \E i \in 1..Len(table) : table[i].name = name

\* this step reads one line and the parser accepts it
AcceptsLine ==
  /\ phase = "parse" /\ stdin # <<>>
  /\ currentLine' = currentLine + 1
  /\ phase' = "parse"

\* C12: a name first seen as an operand gets a stub with complete = FALSE;
\* the definition line of a name that has a stub completes that entry and
\* the table grows only by the names the line introduces; an entry is
\* complete exactly when a definition line of its name was parsed, and no
\* two entries carry the same name.
C12_StubsAndDefinitions ==
  [][ AcceptsLine =>
        LET line == Head(stdin)
            name == LineName(line)
            new  == {n \in OperandNames(line) \cup {name} : ~HasEntry(nonterms, n)}
        IN  IF name = <<>> THEN nonterms' = nonterms ELSE
            /\ \A n \in OperandNames(line) :
                 \E i \in 1..Len(nonterms') :
                   /\ nonterms'[i].name = n
                   /\ (n \in new /\ n # name) => ~nonterms'[i].complete
            /\ \A i \in 1..Len(nonterms) :
                 nonterms[i].name = name =>
                   nonterms'[i].name = name /\ nonterms'[i].complete
            /\ Len(nonterms') = Len(nonterms) + Cardinality(new)
            /\ \A i \in 1..Len(nonterms') :
                 nonterms'[i].complete <=>
                   \/ nonterms'[i].name = name
                   \/ i <= Len(nonterms) /\ nonterms[i].complete
            /\ \A i, j \in 1..Len(nonterms') :
                 nonterms'[i].name = nonterms'[j].name => i = j
    ]_vars


----------------------------------------------------------------------------
(* The order in which build_nfa builds and joins the non-terminals         *)

\* the build loop of build_nfa has called build_non_terminal_nfa(i)
Built(i) ==
  \/ phase \in {"union", "print", "done"}
  \/ phase = "build" /\ (i < loopIdx \/ (i = loopIdx /\ stack # <<>>))

\* the union loop of build_nfa has passed index i (index 0 is the master itself)
Joined(i) == phase \in {"print", "done"} \/ (phase = "union" /\ i < loopIdx)

\* the definition line of table index i comes before the one of index j
DefinedBefore(i, j) ==
  \E p, q \in 1..Len(defLog) : p < q /\ defLog[p] = i /\ defLog[q] = j

\* C13: when the definition line of P precedes the definition line of Q, P's
\* automaton is built before Q's and joined into the master before Q's, also
\* when Q got its table index from a forward reference before P was defined.
C13_DefinitionOrder ==
  \A i, j \in TableIdx :
    DefinedBefore(i, j) =>
      /\ Built(j) => Built(i)
      /\ (j # 0 /\ Joined(j)) => (i = 0 \/ Joined(i))


----------------------------------------------------------------------------
(* The capacity of the non-terminal table                                  *)

\* the bytes of the names of the capacity grammar: two bytes each, so that
\* no name is a prefix of another
NameBytes ==
  <<"a", "b", "c", "d", "e", "f", "g", "h", "i", "j", "k", "l", "m", "n", "o",
    "p", "q">>

\* the k-th name, k = 0, 1, ...
NameOf(k) ==
  <<NameBytes[(k \div Len(NameBytes)) + 1], NameBytes[(k % Len(NameBytes)) + 1]>>

\* a grammar of MAX_NONTERMS + 1 definition lines, each of a new name
CapacityFile ==
  [k \in 1..(MAX_NONTERMS + 1) |-> HeaderOf(NameOf(k - 1)) \o <<"c", NL>>]

\* the first n - 1 lines, then a line that defines the n-th name and, when
\* asked, references the next name
CapacityFiles ==
  {SubSeq(CapacityFile, 1, n) : n \in (MAX_NONTERMS - 2)..(MAX_NONTERMS + 1)}
  \cup
  {SubSeq(CapacityFile, 1, n - 1)
     \o <<HeaderOf(NameOf(n - 1)) \o <<"$">> \o NameOf(n) \o <<NL>>>> :
     n \in (MAX_NONTERMS - 2)..MAX_NONTERMS}

CapacityInit == InitWith(CapacityFiles)

SpecCapacity == CapacityInit /\ [][ReadLine]_vars

\* the grammar being read is `file`, of which currentLine lines are read
Reading(file) ==
  /\ phase \in {"parse", "error"}
  /\ Len(file) = currentLine + Len(stdin)
  /\ SubSeq(file, currentLine + 1, Len(file)) = stdin
  /\ currentLine > 0 => file[currentLine] = LastLine

\* the distinct names the lines read so far define or reference
NamesRead(file) ==
  UNION {{LineName(file[k])} \cup OperandNames(file[k]) : k \in 1..currentLine}

\* C14: the table holds MAX_NONTERMS entries: a grammar with up to
\* MAX_NONTERMS distinct names is parsed without a capacity error, and the
\* name after that stops the parser.
C14_Holds256Names ==
  \A file \in CapacityFiles :
    Reading(file) =>
      /\ err = "assert:MAX_NONTERMS" => Cardinality(NamesRead(file)) > MAX_NONTERMS
      /\ Cardinality(NamesRead(file)) > MAX_NONTERMS => err = "assert:MAX_NONTERMS"


----------------------------------------------------------------------------
(* The automaton of a terminal                                             *)

\* grammars whose first line defines $x by one run of bytes; a second line,
\* where there is one, uses an operator or a reference
TerminalLines == {Header("x") \o r \o <<NL>> : r \in Runs(MaxRunLen)}

SecondLines ==
  {Header("y") \o <<"$", "x", " ", "c", NL>>,
   Header("y") \o <<"a", " ", "|", " ", "b", NL>>}

TerminalFiles ==
  {<<>>} \cup {<<l>> : l \in TerminalLines}
         \cup {<<l, m>> : l \in TerminalLines, m \in SecondLines}

TerminalInit == InitWith(TerminalFiles)

SpecTerminal == TerminalInit /\ [][Next]_vars

\* the body of non-terminal i is one terminal operand
SingleTerminalBody(i) ==
  LET e == nonterms[i + 1].expr
  IN  /\ nonterms[i + 1].complete
      /\ e.type = "NO_OP"
      /\ e.op1.tag = "term"
      /\ e.op2.tag = "null"

\* the terminal of such a body, as build_terminal_nfa reads it
TerminalOf(i) == TermString(termPool, nonterms[i + 1].expr.op1.idx)

\* from state q on, the automaton is a chain spelling T and ending in an
\* ACCEPTING state without edges
RECURSIVE ChainFrom(_, _, _)
ChainFrom(N, q, T) ==
  LET st == N.states[q + 1] IN
  IF T = <<>> THEN st.edges = <<>> /\ st.type = "ACCEPTING"
  ELSE /\ Len(st.edges) = 1
       /\ st.type # "ACCEPTING"
       /\ N.edges[st.edges[1] + 1].symbol = Head(T)
       /\ N.edges[st.edges[1] + 1].symbol # EPSILON
       /\ ChainFrom(N, N.edges[st.edges[1] + 1].target, Tail(T))

----------------------------------------------------------------------------
(* The handles kept in nontermToNFAMap                                     *)

\* the table indices whose handle has not been consumed by the union loop
Surviving ==
  IF phase = "union" THEN {0} \cup {i \in TableIdx : i >= loopIdx}
  ELSE IF phase \in {"print", "done"} THEN {0} \cap TableIdx
  ELSE {}

\* C16: once the build loop is over, and after every step of the union
\* loop, the automata of two surviving handles of nontermToNFAMap share no
\* state: no state is reachable from both starts, and their START and
\* ACCEPTING states differ.
C16_SurvivingDisjoint ==
  \A i, j \in Surviving :
    (i # j /\ MapAt(i) # -1 /\ MapAt(j) # -1) =>
      /\ Reachable(Pools, MapAt(i)) \cap Reachable(Pools, MapAt(j)) = {}
      /\ nfaPool[MapAt(i) + 1].start # nfaPool[MapAt(j) + 1].start
      /\ nfaPool[MapAt(i) + 1].accepting # nfaPool[MapAt(j) + 1].accepting


----------------------------------------------------------------------------
(* The operands the driver hands to the binary combinators                 *)

\* C17: the driver never calls build_concat_nfa or build_or_nfa with the
\* same handle for both operands, neither while building an expression nor
\* in the union loop: their assertion a != b never fails.
C17_OperandsDiffer == err # "assert:same NFA"


----------------------------------------------------------------------------
(* The shape of the expressions parse_body leaves behind                   *)

\* the nodes of the expression of non-terminal i: its root and the pool
\* nodes reached from it
NodesOf(i) ==
  {nonterms[i + 1].expr} \cup {exprPool[k + 1] : k \in PoolNodesOf(i)}

\* C18: in the expression of every parsed definition, a node has
\* op2Type = NOTHING exactly when its type is NO_OP or ZERO_OR_MORE; so the
\* last node has op2Type = NOTHING after the rollback and no ZERO_OR_MORE
\* node keeps a second operand.
C18_Op2TypeMatchesOperator ==
  \A i \in Completed :
    \A e \in NodesOf(i) :
      (e.op2Type = "NOTHING") <=> (e.type \in {"NO_OP", "ZERO_OR_MORE"})


----------------------------------------------------------------------------
(* How an operand $name finds its table entry                              *)

\* the table indices the operands of the expression of non-terminal i
\* point to
OperandEntries(i) ==
  {op.idx : op \in {o \in {e.op1 : e \in NodesOf(i)} \cup
                          {e.op2 : e \in NodesOf(i)} : o.tag = "nonterm"}}

\* C19: an operand $name is resolved to the entry whose stored name equals
\* the operand's name; an entry whose name only starts with the operand's
\* name is never the one returned. So the entries the operands of a parsed
\* definition point to carry exactly the names written in its body.
C19_ExactNameMatch ==
  (phase = "parse" /\ currentLine > 0) =>
    \A i \in Completed :
      nonterms[i + 1].name = LineName(LastLine) =>
        {nonterms[r + 1].name : r \in OperandEntries(i)} = OperandNames(LastLine)


----------------------------------------------------------------------------
(* The storage of a name                                                   *)

\* a name of `size` bytes, the $ counted, made of the byte c
NameOfSize(size, c) == [k \in 1..(size - 1) |-> c]

\* names around the capacity of name[]
LongNames ==
  {NameOfSize(size, c) :
     size \in (MAX_NONTERM_NAME - 1)..(MAX_NONTERM_NAME + 1), c \in {"a", "b"}}

\* a line that defines a long name, a line that references one, and a line
\* of short names
NameLines ==
  {HeaderOf(n) \o <<"c", NL>> : n \in LongNames} \cup
  {HeaderOf(<<"x">>) \o <<"$">> \o n \o <<NL>> : n \in LongNames} \cup
  {HeaderOf(<<"y">>) \o <<"c", NL>>}

NameFiles == {<<l>> : l \in NameLines} \cup {<<l, m>> : l \in NameLines, m \in NameLines}

NamesInit == InitWith(NameFiles)

SpecNames == NamesInit /\ [][ReadLine]_vars

\* C20: every write made to store a name stays inside the MAX_NONTERM_NAME
\* bytes of the storage: the bytes of the name and the NUL after them go to
\* indices below MAX_NONTERM_NAME, whether the name comes from a definition
\* line or from an operand; a longer name stops the parser instead.
C20_NameWritesInBounds ==
  \A k \in 1..Len(nameLog) : nameLog[k].size < MAX_NONTERM_NAME


----------------------------------------------------------------------------
(* What a combinator leaves alone                                          *)

\* s is an initial part of t
IsPrefix(s, t) == Len(s) <= Len(t) /\ SubSeq(t, 1, Len(s)) = s

\* C21: build_concat_nfa, build_or_nfa and build_closure_nfa change no
\* handle but their first one (so the start and accepting offsets of the
\* second handle stay), leave every edge of the edge pool as it was, take no
\* edge away from a state, and never lower the state, edge or handle cursor.
C21_OnlyFirstHandleChanges ==
  (phase = "harness" /\ lastComb.op \in {"concat", "or", "closure"}) =>
    /\ Len(Pools.nfas) >= Len(Before.nfas)
    /\ Len(Pools.states) >= Len(Before.states)
    /\ Len(Pools.edges) >= Len(Before.edges)
    /\ \A h \in 0..(Len(Before.nfas) - 1) :
         h # lastComb.a => Pools.nfas[h + 1] = Before.nfas[h + 1]
    /\ IsPrefix(Before.edges, Pools.edges)
    /\ \A q \in 0..(Len(Before.states) - 1) :
         IsPrefix(Before.states[q + 1].edges, Pools.states[q + 1].edges)

C21_Witness ==
  /\ phase = "harness"
  /\ lastComb.op = "or"
  /\ Len(Before.nfas) = MaxHarnessNFAs
  /\ Before.nfas[lastComb.a + 1] # Pools.nfas[lastComb.a + 1]
  /\ Len(Pools.edges) > Len(Before.edges)
  /\ \E h \in 0..(Len(Before.nfas) - 1) : h # lastComb.a /\ h # lastComb.b


----------------------------------------------------------------------------
(* The Graphviz traversal                                                  *)

\* the lines of the output of the given kind that state q produced
LinesOf(kind, q) ==
  {k \in 1..Len(output) : output[k].kind = kind /\ output[k].from = q}

\* print_nfa_graphviz has printed the automaton of nontermToNFAMap[0]
Printed == phase = "done" /\ err = "none" /\ MapAt(0) # -1

\* C22: the traversal of print_state_graphviz ends on every automaton,
\* those with epsilon cycles made by build_closure_nfa included, and visits
\* each state reachable from the start of the printed handle exactly once:
\* the edges of each reachable state are printed once, in order, and nothing
\* is printed for a state that is not reachable.
C22_EachReachableStateOnce ==
  Printed =>
    LET R == Reachable(Pools, MapAt(0)) IN
    /\ \A k \in 1..Len(output) : output[k].from \in R
    /\ \A q \in R :
         /\ Cardinality(LinesOf("state", q)) = 1
         /\ nfaStatesPool[q + 1].visited
         /\ Cardinality(LinesOf("edge", q)) = Len(nfaStatesPool[q + 1].edges)
         /\ \A i \in 1..Len(nfaStatesPool[q + 1].edges) :
              \E k \in LinesOf("edge", q) :
                /\ output[k].to = nfaEdgePool[nfaStatesPool[q + 1].edges[i] + 1].target
                /\ output[k].label = nfaEdgePool[nfaStatesPool[q + 1].edges[i] + 1].symbol
    /\ \A q \in 0..(currentNFAState - 1) :
         q \notin R => ~nfaStatesPool[q + 1].visited

\* an automaton with an epsilon cycle has been printed
C22_Witness ==
  /\ Printed
  /\ \E q \in Reachable(Pools, MapAt(0)) :
       /\ q \in ReachFrom(Pools, {nfaEdgePool[e + 1].target :
                                    e \in {nfaStatesPool[q + 1].edges[i] :
                                             i \in 1..Len(nfaStatesPool[q + 1].edges)}})
       /\ Cardinality(LinesOf("state", q)) = 1
  /\ \E q \in 0..(currentNFAState - 1) : q \notin Reachable(Pools, MapAt(0))


----------------------------------------------------------------------------
(* The grouping of the binary operators                                    *)

\* bodies X1 OP1 X2 OP2 X3 over one-byte terminals, OP a `|` or a blank
PrecOperands == {"a", "b"}

PrecOps == {<<" ">>, <<" ", "|", " ">>}

PrecLines ==
  {Header("x") \o <<x1>> \o o1 \o <<x2>> \o o2 \o <<x3, NL>> :
     x1 \in PrecOperands, x2 \in PrecOperands, x3 \in PrecOperands,
     o1 \in PrecOps, o2 \in PrecOps}

PrecFiles ==
  {<<>>} \cup {<<l>> : l \in PrecLines}
         \cup {<<l, m>> : l \in PrecLines, m \in SecondLines}

PrecInit == InitWith(PrecFiles)

SpecPrec == PrecInit /\ [][Next]_vars

\* the body of a line as its operands and `|` signs
BodyTokens(line) == SubSeq(Tokens(line), 3, Len(Tokens(line)))

\* the language of a body of terminals read with the operators grouping to
\* the right: X | R is {X} with R's, X R is X before R's
RECURSIVE RightGrouped(_)
RightGrouped(toks) ==
  IF Len(toks) = 1 THEN {toks[1]}
  ELSE IF toks[2] = <<"|">>
       THEN {toks[1]} \cup RightGrouped(SubSeq(toks, 3, Len(toks)))
       ELSE Cat({toks[1]}, RightGrouped(Tail(toks)))

\* the node r and the chain of op2 below it spell toks: op1 is the operand,
\* type the operator after it, op2 the node of the rest
RECURSIVE ChainSpells(_, _)
ChainSpells(r, toks) ==
  LET e == ExprAt(r) IN
  /\ e.op1.tag = "term"
  /\ TermString(termPool, e.op1.idx) = toks[1]
  /\ IF Len(toks) = 1 THEN e.type = "NO_OP" /\ e.op2 = NullOp
     ELSE IF toks[2] = <<"|">>
          THEN /\ e.type = "OR"
               /\ e.op2.tag = "pool"
               /\ ChainSpells(e.op2, SubSeq(toks, 3, Len(toks)))
          ELSE /\ e.type = "AND"
               /\ e.op2.tag = "pool"
               /\ ChainSpells(e.op2, Tail(toks))

\* the table index the last line read defines
LastDefined ==
  {i \in Completed : nonterms[i + 1].name = LineName(LastLine)}

\* the last line read is a body of terminals and `|` signs only
PlainBody ==
  /\ LastLine \in PrecLines \cup SecondLines
  /\ \A k \in 1..Len(BodyTokens(LastLine)) : BodyTokens(LastLine)[k][1] # "$"

\* C23: the binary operators have no precedence and group to the right:
\* X1 OP1 X2 OP2 X3 is parsed as OP1(X1, OP2(X2, X3)), a `|` giving OR and a
\* following operand AND, and the automaton built accepts the language of
\* that tree (`a b | c`: {ab, ac}; `a | b c`: {a, bc}).
C23_GroupsToTheRight ==
  PlainBody =>
    \A i \in LastDefined :
      /\ phase = "parse" => ChainSpells(RootRef(i), BodyTokens(LastLine))
      /\ JustBuilt(i) =>
           NfaLang(Pools, MapAt(i)) = RightGrouped(BodyTokens(LastLine))

C23_Witness ==
  /\ LastLine = Header("x") \o <<"a", " ", "|", " ", "b", " ", "a", NL>>
  /\ \E i \in LastDefined :
       /\ JustBuilt(i)
       /\ NfaLang(Pools, MapAt(i)) = {<<"a">>, <<"b", "a">>}


----------------------------------------------------------------------------
(* Operators without an operand                                            *)

\* bodies of up to three tokens, each an operand or an operator sign
SignTokens == {"a", "|", "*"}

SignBodies ==
  {<<t1>> : t1 \in SignTokens} \cup
  {<<t1, " ", t2>> : t1 \in SignTokens, t2 \in SignTokens} \cup
  {<<t1, " ", t2, " ", t3>> : t1 \in SignTokens, t2 \in SignTokens, t3 \in SignTokens}

SignLines(n) == {Header(n) \o b \o <<NL>> : b \in SignBodies}

SignFiles ==
  {<<l>> : l \in SignLines("x")} \cup
  {<<l, m>> : l \in SignLines("x"), m \in SignLines("y")}

SignInit == InitWith(SignFiles)

SpecSigns == SignInit /\ [][ReadLine]_vars

\* reading the tokens of a body left to right, an operand is required at
\* the start and after a `|`; it is missing when an operator sign or the
\* end of the line stands there
RECURSIVE OperandMissing(_, _)
OperandMissing(toks, required) ==
  IF toks = <<>> THEN required
  ELSE IF required
       THEN Head(toks) \in {<<"|">>, <<"*">>} \/ OperandMissing(Tail(toks), FALSE)
       ELSE OperandMissing(Tail(toks), Head(toks) = <<"|">>)

\* C24: when an operand is required and an operator stands in its place, or
\* the line ends after a `|`, the parser stops with DanglingOperator and the
\* non-terminal of the line is not complete.
C24_DanglingOperatorIsFatal ==
  (currentLine > 0 /\ LastLine \in SignLines("x") \cup SignLines("y")
     /\ OperandMissing(BodyTokens(LastLine), TRUE)) =>
    /\ phase = "error"
    /\ err = "DanglingOperator"
    /\ \A i \in Completed : nonterms[i + 1].name # LineName(LastLine)


----------------------------------------------------------------------------
(* A closure on the first operand of a body                                *)

\* bodies p* q over one-byte terminals
ClosureFirstLines ==
  {Header("x") \o <<p, "*", " ", q, NL>> : p \in PrecOperands, q \in {"a", "b", "c"}}

ClosureFirstFiles ==
  {<<>>} \cup {<<l>> : l \in ClosureFirstLines}
         \cup {<<l, m>> : l \in ClosureFirstLines, m \in SecondLines}
         \cup {<<m, l>> : l \in ClosureFirstLines,
                          m \in {Header("y") \o <<"a", " ", "|", " ", "b", NL>>}}

ClosureFirstInit == InitWith(ClosureFirstFiles)

SpecClosureFirst == ClosureFirstInit /\ [][Next]_vars

\* the nodes reached from node r over op1 and op2, r itself not counted
\* unless a path leads back to it
RECURSIVE Below(_, _)
Below(S, fuel) ==
  LET Kids(r) == {o \in {ExprAt(r).op1, ExprAt(r).op2} : o.tag \in {"root", "pool"}}
      T == S \cup UNION {Kids(r) : r \in S}
  IN  IF T = S \/ fuel = 0 THEN S ELSE Below(T, fuel - 1)

Descendants(r) ==
  Below({o \in {ExprAt(r).op1, ExprAt(r).op2} : o.tag \in {"root", "pool"}},
        Len(exprPool) + Len(nonterms))

\* C25: for a body p* q, whose first operand carries the closure, the
\* expression of the non-terminal is the parent And(ZeroOrMore(p), q), no
\* node of it is reached from itself, and the automaton built for the name
\* accepts exactly p^n q, n >= 0: the operand after the closure is kept.
C25_ClosureOnFirstOperand ==
  (currentLine > 0 /\ LastLine \in ClosureFirstLines) =>
    \A i \in LastDefined :
      LET p == <<BodyTokens(LastLine)[1][1]>>
          q == BodyTokens(LastLine)[2]
      IN  /\ phase = "parse" =>
               /\ ExprAt(RootRef(i)).type = "AND"
               /\ \A r \in Descendants(RootRef(i)) \cup {RootRef(i)} :
                    r \notin Descendants(r)
          /\ JustBuilt(i) => NfaLang(Pools, MapAt(i)) = Cat(Star({p}), {q})


----------------------------------------------------------------------------
(* The closure sign at the end of an operand run                           *)

\* reading the run left to right, its last byte is the second byte of an
\* escape pair
RECURSIVE LastByteEscaped(_)
LastByteEscaped(run) ==
  IF Len(run) < 2 THEN FALSE
  ELSE IF Head(run) = escapeChar
       THEN Len(run) = 2 \/ LastByteEscaped(Tail(Tail(run)))
       ELSE LastByteEscaped(Tail(run))

\* the run ends in a `*` that is an operator
StarIsOperator(run) ==
  Len(run) >= 2 /\ run[Len(run)] = "*" /\ ~LastByteEscaped(run)

\* the operand tokens of the body of a line, in order
OperandTokens(line) ==
  LET toks == BodyTokens(line) IN
  [k \in 1..((Len(toks) + 1) \div 2) |-> toks[2 * k - 1]]

\* the type of the node whose first operand is the terminal stored at off
NodeTypesOf(off) ==
  {e.type : e \in {n \in {nonterms[i + 1].expr : i \in 0..(currentNonterm - 1)}
                        \cup {exprPool[k] : k \in 1..Len(exprPool)} :
                     n.op1 = TermOp(off)}}

\* C26: the `*` that ends an operand run is given back as the closure
\* operator exactly when it is not the second byte of an escape pair, the
\* run being decoded left to right: `@*` is the terminal `*`, `a*` is the
\* closure of `a`, and `@@*` is the closure of the terminal `@`.
C26_StarPushedBackIffNotEscaped ==
  (phase = "parse" /\ currentLine > 0 /\ LastLine \in EscapeLines
     /\ Len(termLog) = Len(OperandTokens(LastLine))) =>
    \A k \in 1..Len(termLog) :
      LET t == OperandTokens(LastLine)[k] IN
      IF StarIsOperator(t)
      THEN /\ termLog[k].run = SubSeq(t, 1, Len(t) - 1)
           /\ NodeTypesOf(termLog[k].off) = {"ZERO_OR_MORE"}
      ELSE /\ termLog[k].run = t
           /\ "ZERO_OR_MORE" \notin NodeTypesOf(termLog[k].off)


----------------------------------------------------------------------------
(* Terminals are never empty                                               *)

\* the edges of the states reachable from the start of handle h
EdgesOf(N, h) ==
  UNION {{N.states[q + 1].edges[i] : i \in 1..Len(N.states[q + 1].edges)} :
           q \in Reachable(N, h)}

\* C27: every terminal the parser stores for a run it accepts is at least
\* one byte long, decoded and as stored, and does not start with NUL; so
\* the assertion of build_terminal_nfa on an empty terminal never fails in
\* the driver and the chain of a terminal has no edge labelled EPSILON.
C27_TerminalsNotEmpty ==
  /\ \A k \in 1..Len(termLog) :
       /\ Len(Decoded(termLog[k].run)) >= 1
       /\ termLog[k].size >= 1
       /\ termPool[termLog[k].off + 1] # NUL
       /\ Len(TermString(termPool, termLog[k].off)) >= 1
  /\ err # "assert:empty terminal"
  /\ (phase = "build" /\ lastComb.op = "terminal") =>
       \A e \in EdgesOf(Pools, lastComb.a) : nfaEdgePool[e + 1].symbol # EPSILON

\* a run with an escape pair and a closure sign was stored and built
C27_Witness ==
  /\ phase = "build"
  /\ lastComb.op = "terminal"
  /\ \E k \in 1..Len(termLog) :
       /\ termLog[k].run = <<"@", "_">>
       /\ LastLine = Header("x") \o <<"@", "_", "*", NL>>
  /\ EdgesOf(Pools, lastComb.a) # {}


----------------------------------------------------------------------------
(* The shape of the automaton a combinator returns                         *)

\* no edge of the pool leads to the start state of handle h, and its
\* accepting state has no edge
ThompsonShape(N, h) ==
  /\ \A e \in 1..Len(N.edges) : N.edges[e].target # N.nfas[h + 1].start
  /\ N.states[N.nfas[h + 1].accepting + 1].edges = <<>>

----------------------------------------------------------------------------
(* Which non-terminals the driver builds                                   *)

\* the table indices of the calls of build_non_terminal_nfa in progress
BeingBuilt == {stack[k].arg.idx : k \in {j \in 1..Len(stack) : stack[j].fn = "nonterm"}}

\* C29: build_non_terminal_nfa(i) is only ever called, by the loop of
\* build_nfa or for an operand, on an entry with complete = TRUE, whose
\* expression was filled by parsing the body of its own definition line: a
\* name that is referenced and never defined is not built from the default
\* expression of its stub.
C29_OnlyDefinedAreBuilt ==
  \A i \in BeingBuilt :
    /\ nonterms[i + 1].complete
    /\ nonterms[i + 1].expr # ZeroExpr


\* The handle build_nfa is about to pass to print_nfa_graphviz
EmitterHandle == MapAt(0)

\* C30: every handle index passed to a combinator or to the Graphviz emitter
\* is allocated, 0 <= idx < currentNFA, for every input: the operands of the
\* last combinator call are handles of the pool, and when build_nfa reaches
\* print_nfa_graphviz the index nontermToNFAMap[0] it passes is a handle of
\* the pool, so nfaPool is never read at -1.
C30_HandlesAreAllocated ==
  /\ lastComb.op \in {"or", "concat", "closure"} => lastComb.a \in Handles
  /\ lastComb.op \in {"or", "concat"} => lastComb.b \in Handles
  /\ phase = "print" => EmitterHandle \in Handles
  /\ err # "nfaPool[-1]"

====
